---- MODULE Spec2Model ----
(***************************************************************************)
(* Model of the polyglot-bench execution engine:                           *)
(*   - the language runners' execute_test (src/orchestrator/runners.py),   *)
(*   - the run coordinator BenchmarkOrchestrator (src/orchestrator/core.py)*)
(*   - the statistical compiler ResultsCompiler (orchestrator/results.py). *)
(*                                                                         *)
(* Time is counted in ticks.  A child process is described by the tick at  *)
(* which it would exit on its own and by its exit code.  The model is the  *)
(* POSIX build (os.name /= "nt").                                          *)
(***************************************************************************)
EXTENDS Integers, Sequences, FiniteSets, TLC

\* ------------------------------------------------------------------------
\* Bounds of the model
\* ------------------------------------------------------------------------
\* largest iteration count a run is configured with
MaxIterations == 2
\* longest time (in ticks) a child process runs before it exits on its own
MaxDur == 3
MaxSessions == 2
MaxTicks == 3
\* number of execute_test calls explored on one orchestrator
MaxExec == 2
\* compile_test invocations in one run
MaxBuilds == 3
\* number of TestResults in the raw_results handed to compile_results
MaxSamples == 3
\* import statements in one source file
MaxImports == 2
\* number of TestResults of one language when one test is analysed
MaxResults == 3

\* ------------------------------------------------------------------------
\* Configuration (utils/config.py) and runner classes
\* ------------------------------------------------------------------------
Languages == {"python", "rust", "go", "typescript"}

AllTests == {"t1", "t2"}

\* LanguageConfig.timeout of each configured language, in ticks
LanguageTimeout(language) ==
    CASE language = "python"     -> 1
      [] language = "rust"       -> 2
      [] language = "go"         -> 1
      [] language = "typescript" -> 2

\* len(stdout) + len(stderr) of a Python test, os.path.getsize of the executed
\* binary or script of the other runners, in the memory unit of the model
MeasuredSize(language) ==
    CASE language = "python"     -> 0
      [] language = "rust"       -> 1
      [] language = "go"         -> 4
      [] language = "typescript" -> 1

\* the error texts execute_test puts in a TestResult, by kind

\* the ticks at which a child exits on its own: a fast child and a slow one
Durations == {1, MaxDur}

\* exceptions that can leave the try block of execute_test
NoException == "none"

\* ------------------------------------------------------------------------
\* TestResult
\* ------------------------------------------------------------------------
TestResult(execution_time, memory_usage, error, success, language, test_name, iteration) ==
    [execution_time |-> execution_time,
     memory_usage   |-> memory_usage,
     error          |-> error,
     success        |-> success,
     language       |-> language,
     test_name      |-> test_name,
     iteration      |-> iteration]

\* ------------------------------------------------------------------------
\* execute_test of the four runners, as pure steps
\* ------------------------------------------------------------------------
\* A runner that checks the existence of the file only.
PreCheckExistsOnly(language, file_exists, file_executable) ==
    CASE language = "python" -> "spawn"
      [] OTHER -> IF ~file_exists THEN "not_found" ELSE "spawn"

\* The up-front checks made before a process is spawned.  The result is the
\* kind of the immediate failure, or "spawn" when the runner goes on to Popen.
\*   PythonRunner: no check; RustRunner, GoRunner: os.path.exists then
\*   os.access(X_OK); TypeScriptRunner: os.path.exists only.
PreCheck(language, file_exists, file_executable) ==
    CASE language = "python" -> "spawn"
      [] language \in {"rust", "go"} ->
            IF ~file_exists THEN "not_found"
            ELSE IF ~file_executable THEN "not_executable"
            ELSE "spawn"
      [] language = "typescript" ->
            IF ~file_exists THEN "not_found" ELSE "spawn"

\* The TestResult returned by the up-front checks when they fail.
PreCheckResult(kind, language, test_name, iteration) ==
    TestResult(0, 0, kind, FALSE, language, test_name, iteration)

\* What process.communicate(timeout=self.config.timeout) does with a child that
\* exits on its own at tick `dur`: it raises TimeoutExpired when the child has
\* not exited by the deadline; otherwise it waits for the child and decodes
\* what the child wrote (text=True), which raises UnicodeDecodeError when the
\* bytes are no text in the encoding of the locale.
CommunicateException(language, dur, decodable) ==
    IF dur > LanguageTimeout(language) THEN "TimeoutExpired"
    ELSE IF ~decodable THEN "UnicodeDecodeError"
    ELSE NoException

\* The TestResult built after communicate() returned.  memory_usage is the
\* length of the captured output (PythonRunner) or the size of the executed
\* file (the other runners), in the memory unit of the model.  error is what
\* the child wrote to its standard error, which may be nothing.
ExitResult(language, test_name, iteration, dur, returncode, size, stderr) ==
    TestResult(dur, size, stderr, returncode = 0, language, test_name, iteration)

\* what a child can have written to its standard error: nothing, or some text
StderrTexts == {"", "stderr"}

\* A runner whose generic handler catches TimeoutExpired too.
ExceptHandlerGenericOnly(exception, language, test_name, iteration) ==
    [handled |-> TRUE,
     result  |-> TestResult(0, 0, "exception", FALSE, language, test_name, iteration)]

\* The except clauses of execute_test: `except subprocess.TimeoutExpired`,
\* then `except Exception`, and the TestResult each returns.  An exception no
\* clause catches leaves execute_test (handled = FALSE).
ExceptHandler(exception, language, test_name, iteration) ==
    CASE exception = "TimeoutExpired" ->
            [handled |-> TRUE,
             result  |-> TestResult(LanguageTimeout(language), 0, "timeout", FALSE,
                                    language, test_name, iteration)]
      [] exception \in {"OSError", "UnicodeDecodeError"} ->
            [handled |-> TRUE,
             result  |-> TestResult(0, 0, "exception", FALSE,
                                    language, test_name, iteration)]

\* What happens to the child when communicate() has raised TimeoutExpired and
\* the handler has returned: execute_test neither kills nor waits for it.
ChildrenAfterTimeout(children, pid) == children

\* What happens to the child when communicate() has returned: it has exited
\* and has been waited for.
ChildrenAfterExit(children, pid) == children \ {pid}

\* ------------------------------------------------------------------------
\* Python dicts keep insertion order: a dict is a sequence of [k, v] entries
\* ------------------------------------------------------------------------
EmptyDict == <<>>

DKeys(d) == {d[i].k : i \in DOMAIN d}

DHas(d, key) == key \in DKeys(d)

\* d[key]
DGet(d, key) == d[CHOOSE i \in DOMAIN d : d[i].k = key].v

\* d[key] = value
DPut(d, key, value) ==
    IF DHas(d, key)
    THEN [i \in DOMAIN d |-> IF d[i].k = key THEN [k |-> key, v |-> value] ELSE d[i]]
    ELSE Append(d, [k |-> key, v |-> value])

\* ------------------------------------------------------------------------
\* Numbers: Python floats are modelled by exact fractions [n, d] in lowest
\* terms; a square root is taken to the precision 1/StdScale.
\* ------------------------------------------------------------------------
StdScale == 100

RECURSIVE GCD(_, _)
GCD(a, b) == IF b = 0 THEN a ELSE GCD(b, a % b)

Abs(x) == IF x < 0 THEN -x ELSE x

Rat(n, d) ==
    LET g == GCD(Abs(n), Abs(d))
        sgn == IF d < 0 THEN -1 ELSE 1
    IN  [n |-> sgn * (n \div g), d |-> sgn * (d \div g)]

Zero == Rat(0, 1)
RAdd(a, b) == Rat(a.n * b.d + b.n * a.d, a.d * b.d)
RMul(a, b) == Rat(a.n * b.n, a.d * b.d)
RDiv(a, b) == Rat(a.n * b.d, a.d * b.n)
RLess(a, b) == a.n * b.d < b.n * a.d
RLeq(a, b) == a.n * b.d <= b.n * a.d
RMax(a, b) == IF RLess(a, b) THEN b ELSE a
RMin(a, b) == IF RLess(b, a) THEN b ELSE a
RSub(a, b) == RAdd(a, Rat(-b.n, b.d))
RAbs(a) == Rat(Abs(a.n), a.d)
One == Rat(1, 1)

\* a float that came out of a division by a square root, to the precision of
\* the model
RRound(a) == Rat((a.n * StdScale) \div a.d, StdScale)

\* the largest r with r * r <= n, searched between lo and hi
RECURSIVE SqrtBetween(_, _, _)
SqrtBetween(n, lo, hi) ==
    IF lo >= hi THEN lo
    ELSE LET mid == (lo + hi + 1) \div 2
         IN  IF mid * mid <= n THEN SqrtBetween(n, mid, hi)
             ELSE SqrtBetween(n, lo, mid - 1)

\* math.sqrt of a fraction, to the precision of the model
RSqrt(a) ==
    LET scaled == (a.n * StdScale * StdScale) \div a.d
    IN  Rat(SqrtBetween(scaled, 0, scaled \div StdScale + StdScale), StdScale)

RECURSIVE SumSeq(_)
SumSeq(xs) == IF xs = <<>> THEN 0 ELSE Head(xs) + SumSeq(Tail(xs))

RECURSIVE MinSeq(_)
MinSeq(xs) ==
    IF Len(xs) = 1 THEN xs[1]
    ELSE LET m == MinSeq(Tail(xs)) IN IF xs[1] <= m THEN xs[1] ELSE m

\* A maximum taken as the last element of the list.
LastOfSeq(xs) == xs[Len(xs)]

RECURSIVE MaxSeq(_)
MaxSeq(xs) ==
    IF Len(xs) = 1 THEN xs[1]
    ELSE LET m == MaxSeq(Tail(xs)) IN IF xs[1] >= m THEN xs[1] ELSE m

\* sorted(xs)
RECURSIVE Sorted(_)
Sorted(xs) ==
    IF xs = <<>> THEN <<>>
    ELSE LET m == MinSeq(xs)
             i == CHOOSE j \in DOMAIN xs : xs[j] = m
         IN  <<m>> \o Sorted(SubSeq(xs, 1, i - 1) \o SubSeq(xs, i + 1, Len(xs)))

\* statistics.mean
Mean(xs) == Rat(SumSeq(xs), Len(xs))

\* statistics.median
Median(xs) ==
    LET ys == Sorted(xs)
        n  == Len(xs)
    IN  IF n % 2 = 1 THEN Rat(ys[(n + 1) \div 2], 1)
        ELSE Rat(ys[n \div 2] + ys[n \div 2 + 1], 2)

\* statistics.variance (the sample variance, len(xs) > 1)
Variance(xs) ==
    LET n == Len(xs)
        squares == SumSeq([i \in DOMAIN xs |-> xs[i] * xs[i]])
    IN  Rat(n * squares - SumSeq(xs) * SumSeq(xs), n * (n - 1))

\* statistics.stdev
Stdev(xs) == RSqrt(Variance(xs))

\* sum and statistics.mean of a list of scores
RECURSIVE RSum(_)
RSum(xs) == IF xs = <<>> THEN Zero ELSE RAdd(Head(xs), RSum(Tail(xs)))

RMean(xs) == RDiv(RSum(xs), Rat(Len(xs), 1))

\* ------------------------------------------------------------------------
\* ResultsCompiler (results.py).  Times are in seconds; memory_usage is in
\* units of half a megabyte.  The CPU fields are left out: every runner
\* reports cpu_usage 0.0.
\* ------------------------------------------------------------------------
\* self.performance_weights, in tenths
WeightTime == 7
WeightMemory == 2
WeightReliability == 1

\* memory units in one megabyte
UnitsPerMB == 2

\* The state of a ResultsCompiler object: self.performance_weights, in tenths.
VARIABLE performance_weights

\* ResultsCompiler.__init__
InitialWeights ==
    [time |-> WeightTime, memory |-> WeightMemory, reliability |-> WeightReliability]

\* A compiler that rescales its weights in place while it compiles.
WeightsRescaledInPlace(weights) ==
    [weights EXCEPT !.time = weights.time + weights.reliability, !.reliability = 0]

\* self.performance_weights after a call of compile_results: no method of the
\* compiler assigns to an attribute of self
WeightsAfterCompile(weights) == weights

\* _calculate_performance_score
PerformanceScore(avg_time, avg_memory, success_rate) ==
    IF RLeq(avg_time, Zero) THEN Zero
    ELSE LET time_score   == RDiv(Rat(1000, 1), RMul(avg_time, Rat(1000, 1)))
             memory_score == RDiv(Rat(100, 1),
                                  RMax(RDiv(avg_memory, Rat(UnitsPerMB, 1)), Rat(1, 1)))
         IN  RAdd(RAdd(RMul(time_score, Rat(performance_weights.time, 10)),
                       RMul(memory_score, Rat(performance_weights.memory, 10))),
                  RMul(RMul(success_rate, Rat(100, 1)),
                       Rat(performance_weights.reliability, 10)))

\* _calculate_reliability_score
ReliabilityScore(success_rate, std_time) ==
    LET consistency_score == RDiv(Rat(1, 1), RAdd(Rat(1, 1), std_time))
    IN  RAdd(RMul(success_rate, Rat(8, 10)), RMul(consistency_score, Rat(2, 10)))

IsSuccess(r) == r.success

\* successful_results = [r for r in results if r.success]
SuccessfulResults(results) == SelectSeq(results, IsSuccess)

\* A compiler that counts the successful results as the total.
TotalIterationsOfSuccessful(results) == Len(SuccessfulResults(results))

\* total_iterations = len(results)
TotalIterations(results) == Len(results)

Times(results) == [i \in DOMAIN results |-> results[i].execution_time]

HasMemory(r) == r.memory_usage > 0

Memories(results) ==
    LET measured == SelectSeq(results, HasMemory)
    IN  [i \in DOMAIN measured |-> measured[i].memory_usage]

\* _calculate_language_performance
LanguagePerformance(language, test_name, results) ==
    IF results = <<>>
    THEN [language |-> language, test_name |-> test_name,
          avg_time |-> Zero, min_time |-> 0, max_time |-> 0, std_time |-> Zero,
          median_time |-> Zero, avg_memory |-> Zero, peak_memory |-> 0,
          min_memory |-> 0, success_rate |-> Zero, total_iterations |-> 0,
          successful_iterations |-> 0, performance_score |-> Zero,
          reliability_score |-> Zero]
    ELSE
    LET successful_results    == SuccessfulResults(results)
        total_iterations      == TotalIterations(results)
        successful_iterations == Len(successful_results)
        times       == Times(successful_results)
        memories    == Memories(successful_results)
        some        == successful_results # <<>>
        avg_time    == IF some THEN Mean(times) ELSE Zero
        std_time    == IF some /\ Len(times) > 1 THEN Stdev(times) ELSE Zero
        avg_memory  == IF some /\ memories # <<>> THEN Mean(memories) ELSE Zero
        success_rate == IF total_iterations > 0
                        THEN Rat(successful_iterations, total_iterations) ELSE Zero
    IN  [language |-> language, test_name |-> test_name,
         avg_time    |-> avg_time,
         min_time    |-> IF some THEN MinSeq(times) ELSE 0,
         max_time    |-> IF some THEN MaxSeq(times) ELSE 0,
         std_time    |-> std_time,
         median_time |-> IF some THEN Median(times) ELSE Zero,
         avg_memory  |-> avg_memory,
         peak_memory |-> IF some /\ memories # <<>> THEN MaxSeq(memories) ELSE 0,
         min_memory  |-> IF some /\ memories # <<>> THEN MinSeq(memories) ELSE 0,
         success_rate |-> success_rate,
         total_iterations |-> total_iterations,
         successful_iterations |-> successful_iterations,
         performance_score |-> PerformanceScore(avg_time, avg_memory, success_rate),
         reliability_score |-> ReliabilityScore(success_rate, std_time)]

\* min(items, key=...) of Python over a non-empty dict: the first entry whose
\* key is not above any other's.  keys[i] is the key of entry i and inf[i]
\* tells that the key of entry i is float('inf').
FirstMin(d, keys, inf) ==
    LET below(i, j) == IF inf[i] THEN FALSE
                       ELSE IF inf[j] THEN TRUE
                       ELSE RLess(keys[i], keys[j])
        i == CHOOSE i \in DOMAIN d :
                /\ \A j \in DOMAIN d : ~below(j, i)
                /\ \A j \in 1..(i - 1) : below(i, j)
    IN  d[i]

\* max(items, key=...) of Python over a non-empty dict: the first entry whose
\* key is not below any other's.
FirstMax(d, keys) ==
    LET i == CHOOSE i \in DOMAIN d :
                /\ \A j \in DOMAIN d : ~RLess(keys[i], keys[j])
                /\ \A j \in 1..(i - 1) : RLess(keys[j], keys[i])
    IN  d[i]

\* the keys of the lambdas of _find_fastest_language, _find_most_memory_efficient
\* and _find_most_reliable, entry by entry
NoSuccesses(d) == [i \in DOMAIN d |-> d[i].v.successful_iterations = 0]
AvgTimes(d) == [i \in DOMAIN d |-> d[i].v.avg_time]
AvgMemories(d) == [i \in DOMAIN d |-> d[i].v.avg_memory]
SuccessRates(d) == [i \in DOMAIN d |-> d[i].v.success_rate]

\* A compiler that reports the minimum whether or not it has a success.
FindFastestLanguageUnguarded(language_performances) ==
    IF language_performances = <<>> THEN ""
    ELSE FirstMin(language_performances, AvgTimes(language_performances),
                  NoSuccesses(language_performances)).k

\* _find_fastest_language
FindFastestLanguage(language_performances) ==
    IF language_performances = <<>> THEN ""
    ELSE LET fastest == FirstMin(language_performances, AvgTimes(language_performances),
                                 NoSuccesses(language_performances))
         IN  IF fastest.v.successful_iterations > 0 THEN fastest.k ELSE ""

\* _find_most_memory_efficient
FindMostMemoryEfficient(language_performances) ==
    IF language_performances = <<>> THEN ""
    ELSE LET most_efficient == FirstMin(language_performances,
                                        AvgMemories(language_performances),
                                        NoSuccesses(language_performances))
         IN  IF most_efficient.v.successful_iterations > 0 THEN most_efficient.k ELSE ""

\* A compiler that reports the fastest language as the most reliable one.
FindMostReliableAsFastest(language_performances) ==
    FindFastestLanguage(language_performances)

\* _find_most_reliable
FindMostReliable(language_performances) ==
    IF language_performances = <<>> THEN ""
    ELSE FirstMax(language_performances, SuccessRates(language_performances)).k

\* the loop of _analyze_test_results: a language with no results is skipped
RECURSIVE LanguagePerformances(_, _)
LanguagePerformances(test_name, language_results) ==
    IF language_results = <<>> THEN <<>>
    ELSE LET e    == Head(language_results)
             rest == LanguagePerformances(test_name, Tail(language_results))
         IN  IF e.v = <<>> THEN rest
             ELSE <<[k |-> e.k, v |-> LanguagePerformance(e.k, test_name, e.v)]>> \o rest

\* sorted(pairs, key=score, reverse=True) of Python: a stable sort, so pairs of
\* equal score keep the order they had.  InsertDescending puts one more pair,
\* which came after those of `sorted`, in its place.
RECURSIVE InsertDescending(_, _)
InsertDescending(sorted, pair) ==
    IF sorted = <<>> THEN <<pair>>
    ELSE IF RLess(Head(sorted).score, pair.score) THEN <<pair>> \o sorted
    ELSE <<Head(sorted)>> \o InsertDescending(Tail(sorted), pair)

RECURSIVE SortedDescending(_)
SortedDescending(pairs) ==
    IF pairs = <<>> THEN <<>>
    ELSE InsertDescending(SortedDescending(SubSeq(pairs, 1, Len(pairs) - 1)),
                          pairs[Len(pairs)])

\* perf.successful_iterations > 0, for an entry of language_performances
EntryHasSuccess(e) == e.v.successful_iterations > 0

\* A compiler that ranks every language, successful or not.
RankAllLanguagesByPerformance(language_performances) ==
    SortedDescending([i \in DOMAIN language_performances |->
                        [k     |-> language_performances[i].k,
                         score |-> language_performances[i].v.performance_score]])

\* _rank_languages_by_performance
RankLanguagesByPerformance(language_performances) ==
    LET successful == SelectSeq(language_performances, EntryHasSuccess)
    IN  SortedDescending([i \in DOMAIN successful |->
                            [k     |-> successful[i].k,
                             score |-> successful[i].v.performance_score]])

\* _analyze_test_results
\* _approximate_t_cdf for df < 30: max(0.0, min(1.0, 0.5 + t / (2 * sqrt(df + t*t))))
ApproximateTCdf(t, df) ==
    RMax(Zero, RMin(One, RAdd(Rat(1, 2),
                             RDiv(t, RMul(Rat(2, 1),
                                          RSqrt(RAdd(Rat(df, 1), RMul(t, t))))))))

\* _calculate_t_test_p_value
TTestPValue(sample1, sample2) ==
    IF Len(sample1) < 2 \/ Len(sample2) < 2 THEN One
    ELSE LET n1 == Len(sample1)
             n2 == Len(sample2)
             pooled_se == RSqrt(RAdd(RDiv(Variance(sample1), Rat(n1, 1)),
                                     RDiv(Variance(sample2), Rat(n2, 1))))
             t_stat == IF RLess(Zero, pooled_se)
                       THEN RRound(RDiv(RAbs(RSub(Mean(sample1), Mean(sample2))), pooled_se))
                       ELSE Zero
             df == (IF n1 <= n2 THEN n1 ELSE n2) - 1
             p_value == RMul(Rat(2, 1), RSub(One, ApproximateTCdf(t_stat, df)))
         IN  RMax(Zero, RMin(One, p_value))

\* A compiler that takes the times of all the results of a language.
SignificanceTimesOfAll(results) ==
    [i \in DOMAIN results |-> results[i].execution_time]

\* [r.execution_time for r in language_results[lang] if r.success]
SignificanceTimes(results) ==
    LET successful == SuccessfulResults(results)
    IN  [i \in DOMAIN successful |-> successful[i].execution_time]

\* the languages lang2 of the inner loop for the language at position i
OtherPositions(language_results, i) ==
    SelectSeq([j \in DOMAIN language_results |-> j], LAMBDA j : j # i)

\* _calculate_statistical_significance
CalculateStatisticalSignificance(language_results) ==
    LET times == [i \in DOMAIN language_results |-> SignificanceTimes(language_results[i].v)]
    IN  [i \in DOMAIN language_results |->
           [k |-> language_results[i].k,
            v |-> LET others == OtherPositions(language_results, i) IN
                  [m \in DOMAIN others |->
                     [k |-> language_results[others[m]].k,
                      v |-> IF Len(times[i]) > 1 /\ Len(times[others[m]]) > 1
                            THEN TTestPValue(times[i], times[others[m]])
                            ELSE One]]]]

AnalyzeTestResults(test_name, language_results) ==
    LET language_performances == LanguagePerformances(test_name, language_results)
    IN  [test_name             |-> test_name,
         language_performances |-> language_performances,
         fastest_language      |-> FindFastestLanguage(language_performances),
         most_memory_efficient |-> FindMostMemoryEfficient(language_performances),
         most_reliable         |-> FindMostReliable(language_performances),
         performance_ranking   |-> RankLanguagesByPerformance(language_performances),
         statistical_significance |-> CalculateStatisticalSignificance(language_results)]

\* the four per-test scores _calculate_overall_rankings collects
SpeedScore(perf) ==
    IF RLess(Zero, perf.avg_time)
    THEN RDiv(Rat(1000, 1), RMul(perf.avg_time, Rat(1000, 1))) ELSE Zero

MemoryScore(perf) ==
    RDiv(Rat(100, 1), RMax(RDiv(perf.avg_memory, Rat(UnitsPerMB, 1)), Rat(1, 1)))

ReliabilityPercent(perf) == RMul(perf.reliability_score, Rat(100, 1))

OverallScore(perf) == perf.performance_score

\* A compiler that also scores the tests in which the language never succeeded.
RECURSIVE PerformancesOfEveryTest(_, _)
PerformancesOfEveryTest(test_analyses, language) ==
    IF test_analyses = <<>> THEN <<>>
    ELSE LET lp   == Head(test_analyses).v.language_performances
             rest == PerformancesOfEveryTest(Tail(test_analyses), language)
         IN  IF DHas(lp, language) THEN <<DGet(lp, language)>> \o rest ELSE rest

\* the LanguagePerformance records of one language with a success, over the
\* tests in their order: the tests whose scores are appended
RECURSIVE SuccessfulPerformances(_, _)
SuccessfulPerformances(test_analyses, language) ==
    IF test_analyses = <<>> THEN <<>>
    ELSE LET lp   == Head(test_analyses).v.language_performances
             rest == SuccessfulPerformances(Tail(test_analyses), language)
         IN  IF DHas(lp, language) /\ DGet(lp, language).successful_iterations > 0
             THEN <<DGet(lp, language)>> \o rest
             ELSE rest

\* a language with a list of scores that is not empty
HasScores(e) == e.scores # <<>>

\* _create_ranking: the mean of the scores of every language that has some,
\* sorted by descending mean
CreateRanking(scores_by_language) ==
    LET scored == SelectSeq(scores_by_language, HasScores)
    IN  SortedDescending([i \in DOMAIN scored |->
                            [k |-> scored[i].k, score |-> RMean(scored[i].scores)]])

\* a test with a performance_ranking that is not empty
HasRanking(e) == e.v.performance_ranking # <<>>

\* _calculate_overall_rankings.  all_languages = list(set(...)): the languages
\* in the order in which this process iterates over a set of them.
CalculateOverallRankings(test_analyses, order) ==
    LET present == UNION {DKeys(test_analyses[i].v.language_performances) :
                             i \in DOMAIN test_analyses}
        IsPresent(language) == language \in present
        all_languages == SelectSeq(order, IsPresent)
        perfs == [i \in DOMAIN all_languages |->
                    SuccessfulPerformances(test_analyses, all_languages[i])]
        ranked == SelectSeq(test_analyses, HasRanking)
    IN  [by_speed |-> CreateRanking([i \in DOMAIN all_languages |->
                         [k |-> all_languages[i],
                          scores |-> [j \in DOMAIN perfs[i] |-> SpeedScore(perfs[i][j])]]]),
         by_memory |-> CreateRanking([i \in DOMAIN all_languages |->
                         [k |-> all_languages[i],
                          scores |-> [j \in DOMAIN perfs[i] |-> MemoryScore(perfs[i][j])]]]),
         by_reliability |-> CreateRanking([i \in DOMAIN all_languages |->
                         [k |-> all_languages[i],
                          scores |-> [j \in DOMAIN perfs[i] |-> ReliabilityPercent(perfs[i][j])]]]),
         by_overall |-> CreateRanking([i \in DOMAIN all_languages |->
                         [k |-> all_languages[i],
                          scores |-> [j \in DOMAIN perfs[i] |-> OverallScore(perfs[i][j])]]]),
         category_winners |-> [i \in DOMAIN ranked |->
                                 [k |-> ranked[i].k, v |-> ranked[i].v.performance_ranking[1].k]]]

NoRankings ==
    [by_speed |-> <<>>, by_memory |-> <<>>, by_reliability |-> <<>>,
     by_overall |-> <<>>, category_winners |-> <<>>]

\* the results of the tests of raw_results, test after test and language after
\* language
RECURSIVE AllResults(_)
AllResults(raw) ==
    IF raw = <<>> THEN <<>>
    ELSE LET language_results == Head(raw).v
             IN  IF language_results = <<>> THEN AllResults(Tail(raw))
                 ELSE Head(language_results).v
                      \o AllResults(<<[k |-> Head(raw).k, v |-> Tail(language_results)]>>
                                    \o Tail(raw))

\* A compiler that counts the successful executions only.
CountSuccessfulExecutions(raw) == Len(SuccessfulResults(AllResults(raw)))

\* total_executions += len(lang_results), over every test and language
RECURSIVE CountExecutions(_)
CountExecutions(raw) ==
    IF raw = <<>> THEN 0
    ELSE SumSeq([i \in DOMAIN Head(raw).v |-> Len(Head(raw).v[i].v)])
         + CountExecutions(Tail(raw))

\* _get_all_languages
AllLanguages(raw) == UNION {DKeys(raw[i].v) : i \in DOMAIN raw}

IsFailure(r) == ~r.success

\* _generate_summary_statistics
GenerateSummaryStatistics(test_analyses, raw) ==
    LET total_successful == Len(SelectSeq(AllResults(raw), IsSuccess))
        total_failed     == Len(SelectSeq(AllResults(raw), IsFailure))
    IN  [total_successful_executions |-> total_successful,
         total_failed_executions     |-> total_failed,
         overall_success_rate |-> IF total_successful + total_failed > 0
                                  THEN Rat(total_successful, total_successful + total_failed)
                                  ELSE Zero,
         tests_analyzed   |-> Len(test_analyses),
         languages_tested |-> Cardinality(AllLanguages(raw))]

NoSummary ==
    [status |-> "none", total_tests |-> 0, total_languages |-> 0,
     total_executions |-> 0, results |-> <<>>, overall_rankings |-> NoRankings,
     summary_statistics |-> GenerateSummaryStatistics(<<>>, <<>>)]

\* the test_analyses of compile_results
TestAnalyses(raw) ==
    [i \in DOMAIN raw |-> [k |-> raw[i].k, v |-> AnalyzeTestResults(raw[i].k, raw[i].v)]]

\* compile_results with the set order of the process: raises ValueError for an
\* empty raw_results
CompileResultsInOrder(raw, order) ==
    IF raw = <<>>
    THEN [NoSummary EXCEPT !.status = "ValueError"]
    ELSE LET test_analyses == TestAnalyses(raw) IN
         [status           |-> "returned",
          total_tests      |-> Len(test_analyses),
          total_languages  |-> Cardinality(AllLanguages(raw)),
          total_executions |-> CountExecutions(raw),
          results          |-> test_analyses,
          overall_rankings |-> CalculateOverallRankings(test_analyses, order),
          summary_statistics |-> GenerateSummaryStatistics(test_analyses, raw)]

\* ------------------------------------------------------------------------
\* State
\* ------------------------------------------------------------------------
VARIABLES
    \* --- operating system ---
    children,            \* pids of the benchmarked child processes still running
    \* --- one runner ---
    call,                \* the execute_test call in progress, or the last one made
    ncalls,              \* number of execute_test calls made so far (the next pid)
    executable_file,     \* the file handed to that call: whether it exists and
                         \* whether the caller may execute it (os.X_OK)
    \* --- BenchmarkOrchestrator ---
    target_languages,    \* self.target_languages
    target_tests,        \* self.target_tests
    iterations,          \* self.iterations
    raw_results,         \* self.raw_results: test -> language -> list of TestResult
    performance_summary, \* self.performance_summary
    pc,                  \* position of execute_benchmark_suite
    compiled_files,      \* local of execute_benchmark_suite: test -> language -> handle
    ti, li, it,          \* indices of the three loops of _execute_all_tests
    suite_outcome,       \* how the last execute_benchmark_suite call ended
    failed_languages,    \* local of validate_environments in that call
    raw_at_start,        \* raw_results as it was when _execute_all_tests was entered
    \* --- ResultsCompiler, called on its own ---
    c_raw,               \* the raw_results handed to compile_results
    c_summary,           \* the PerformanceSummary compile_results returned
    c_previous,          \* the PerformanceSummary of the call before, on the same input
    set_order,           \* the order in which this process iterates over a set of
                         \* language names (fixed by the hash seed of the process)
    \* --- compile_test and the file system ---
    scratch,             \* the scratch directories (tempfile.mkdtemp) that exist
    temp_dirs,           \* self.temp_dirs of the Rust and Go runners
    output,              \* language -> the invocation that wrote the file at the
                         \* output path under binaries/, 0 when there is no file
    build,               \* the last compile_test invocation
    scaffold,            \* a source file, the build project made for it and the
                         \* path of its binary, as far as they are computed
    nbuilds,             \* number of compile_test invocations made so far
    cwd,                 \* os.getcwd(): the working directory of the process
    \* --- MetricsCollector and the sampling loops ---
    monitoring_active,   \* self.monitoring_active
    monitoring_thread,   \* self.monitoring_thread: 0 for None, else the thread
    thread_pc,           \* thread -> where it is in _monitoring_loop
    target_process,      \* self.target_process: 0 for None, else a pid
    system_metrics_history,
    process_metrics_history,
    current_metrics,     \* self.current_metrics, the value stop_monitoring returned
    main,                \* where the caller of start_monitoring/stop_monitoring is
    nsessions,           \* number of threads start_monitoring has started
    nticks,              \* number of passes of the sampling loops so far
    process_running,     \* the monitored process has not exited
    sampler              \* the call of _monitor_process_metrics

os_vars     == <<children>>
runner_vars == <<call, ncalls, executable_file>>
orch_vars   == <<target_languages, target_tests, iterations, raw_results,
                 performance_summary, pc, compiled_files, ti, li, it,
                 suite_outcome, failed_languages, raw_at_start>>
comp_vars   == <<c_raw, c_summary, c_previous, set_order, performance_weights>>
build_vars  == <<scratch, temp_dirs, output, build, nbuilds, scaffold, cwd>>
mon_vars    == <<monitoring_active, monitoring_thread, thread_pc, target_process,
                 system_metrics_history, process_metrics_history, current_metrics,
                 main, nsessions, nticks, process_running, sampler>>

\* compile_results
CompileResults(raw) == CompileResultsInOrder(raw, set_order)
vars        == <<os_vars, runner_vars, orch_vars, comp_vars, build_vars, mon_vars>>

\* ------------------------------------------------------------------------
\* compile_test of the compiled languages (runners.py)
\* ------------------------------------------------------------------------
\* _create_cargo_project after tempfile.mkdtemp: Cargo.toml is written, then
\* the source is copied to src/main.rs; either may raise.
CreateCargoProject(manifest_ok, copy_ok) ==
    IF manifest_ok /\ copy_ok THEN "created" ELSE "raise"

\* _setup_go_module after tempfile.mkdtemp: the source is copied, then go.mod
\* is written; either may raise.
SetupGoModule(copy_ok, manifest_ok) ==
    IF copy_ok /\ manifest_ok THEN "created" ELSE "raise"

\* _compile_with_cargo: cargo build --release in the scratch directory, then
\* the binary of target/release is copied to the output path.
\*   built       : target/release/benchmark_test exists after the build
\*   copy_out_ok : shutil.copy2 to the output path did not raise
CompileWithCargo(returncode, built, copy_out_ok) ==
    IF returncode = 0 /\ built /\ copy_out_ok THEN "path" ELSE "None"

\* _compile_with_modules: go build -o output_file, then
\* result.returncode == 0 and os.path.exists(output_file)
CompileWithModules(returncode, output_exists) ==
    IF returncode = 0 /\ output_exists THEN "path" ELSE "None"

\* _compile_with_global_tsc, _compile_with_npx_tsc, _compile_with_local_tsc:
\* tsc --outDir output_dir, then
\* result.returncode == 0 and os.path.exists(js_file)
CompileWithTsc(returncode, js_exists) ==
    IF returncode = 0 /\ js_exists THEN "path" ELSE "None"

\* the directory the program is started in; a scratch directory is named by
\* the number of the invocation that made it
StartDir == 0

\* os.chdir(cargo_dir), os.chdir(module_dir): the first statement of the try
\* block; it raises when the directory cannot be entered
Chdir(directory, original_cwd, chdir_ok) ==
    IF chdir_ok THEN directory ELSE original_cwd

\* no finally clause: the working directory is the one the build ran in
StayInside(cwd_inside, original_cwd) == cwd_inside

\* finally: os.chdir(original_cwd)
ChdirBack(cwd_inside, original_cwd) == original_cwd

\* _cleanup_temp_dir on a set of directories: shutil.rmtree may raise, the
\* exception is caught and the directory stays, on disk and in self.temp_dirs
CleanupTempDir(dirs, temp_dir, rmtree_ok) ==
    IF rmtree_ok THEN dirs \ {temp_dir} ELSE dirs

\* ------------------------------------------------------------------------
\* execute_test as steps of one runner
\* ------------------------------------------------------------------------
NoResult == TestResult(0, 0, "stderr", FALSE, "python", "t1", 0)

NoFile == [exists |-> TRUE, executable |-> TRUE]

NoCall ==
    [state |-> "none", language |-> "python", test_name |-> "t1", iteration |-> 0,
     pid |-> 0, outcome |-> "none", returncode |-> 0, elapsed |-> 0,
     result |-> NoResult]

\* The record of a call that has ended: with the TestResult it returned, or
\* with the exception that left it.
EndedCall(language, test_name, iteration, pid, outcome, returncode, elapsed, handled, result) ==
    [state |-> IF handled THEN "returned" ELSE "raised",
     language |-> language, test_name |-> test_name, iteration |-> iteration,
     pid |-> pid, outcome |-> outcome, returncode |-> returncode,
     elapsed |-> elapsed, result |-> IF handled THEN result ELSE NoResult]

\* execute_test up to and including subprocess.Popen: the up-front checks, then
\* the spawn, which the operating system may refuse (OSError).
ExecuteTestBegin(language, test_name, iteration, file_exists, file_executable, can_spawn) ==
    /\ call.state # "waiting"
    /\ ncalls < MaxExec
    /\ ncalls' = ncalls + 1
    /\ executable_file' = [exists |-> file_exists, executable |-> file_executable]
    /\ LET pre == PreCheck(language, file_exists, file_executable) IN
       IF pre # "spawn"
       THEN /\ call' = EndedCall(language, test_name, iteration, ncalls, pre, 0, 0, TRUE,
                                 PreCheckResult(pre, language, test_name, iteration))
            /\ UNCHANGED children
       ELSE \E spawned \in (IF can_spawn THEN BOOLEAN ELSE {FALSE}) :
               IF spawned
               THEN /\ children' = children \cup {ncalls}
                    /\ call' = [state |-> "waiting", language |-> language,
                                test_name |-> test_name, iteration |-> iteration,
                                pid |-> ncalls, outcome |-> "none", returncode |-> 0,
                                elapsed |-> 0, result |-> NoResult]
               ELSE LET h == ExceptHandler("OSError", language, test_name, iteration) IN
                    /\ call' = EndedCall(language, test_name, iteration, ncalls,
                                         "spawn_failure", 0, 0, h.handled, h.result)
                    /\ UNCHANGED children

\* process.communicate(timeout=...) and what follows it: the child exits with
\* some return code at some tick, having written text or bytes that are no
\* text, or is still running at the deadline.
ExecuteTestCommunicate ==
    /\ call.state = "waiting"
    /\ UNCHANGED <<ncalls, executable_file>>
    /\ \E dur \in Durations, returncode \in {0, 1}, decodable \in BOOLEAN,
          stderr \in StderrTexts :
         LET exc == CommunicateException(call.language, dur, decodable)
             h   == ExceptHandler(exc, call.language, call.test_name, call.iteration)
         IN
         IF exc = NoException
         THEN /\ children' = ChildrenAfterExit(children, call.pid)
              /\ call' = EndedCall(call.language, call.test_name, call.iteration, call.pid,
                                   "exit", returncode, dur, TRUE,
                                   ExitResult(call.language, call.test_name,
                                              call.iteration, dur, returncode,
                                              MeasuredSize(call.language), stderr))
         ELSE IF exc = "UnicodeDecodeError"
         THEN /\ returncode = 0
              /\ stderr = "stderr"
              /\ children' = ChildrenAfterExit(children, call.pid)
              /\ call' = EndedCall(call.language, call.test_name, call.iteration, call.pid,
                                   "exit", returncode, dur, h.handled, h.result)
         ELSE /\ returncode = 0
              /\ decodable
              /\ stderr = "stderr"
              /\ children' = ChildrenAfterTimeout(children, call.pid)
              /\ call' = EndedCall(call.language, call.test_name, call.iteration, call.pid,
                                   "timeout", 0, LanguageTimeout(call.language),
                                   h.handled, h.result)

\* A child nobody waits for any more exits on its own.
ChildExits ==
    /\ \E pid \in children :
         /\ ~(call.state = "waiting" /\ call.pid = pid)
         /\ children' = children \ {pid}
    /\ UNCHANGED <<runner_vars, orch_vars, comp_vars, build_vars, mon_vars>>

\* ------------------------------------------------------------------------
\* Specification of one runner: execute_test called with any arguments
\* ------------------------------------------------------------------------
\* ------------------------------------------------------------------------
\* Texts: a file name or the content of a source file is a sequence of pieces
\* of text, and a search looks for a sequence of pieces
\* ------------------------------------------------------------------------
\* text.endswith(suffix)
EndsWith(text, suffix) ==
    /\ Len(suffix) <= Len(text)
    /\ SubSeq(text, Len(text) - Len(suffix) + 1, Len(text)) = suffix

\* text.startswith(prefix)
StartsWith(text, prefix) ==
    /\ Len(prefix) <= Len(text)
    /\ SubSeq(text, 1, Len(prefix)) = prefix

\* pattern in text
Contains(text, pattern) ==
    \E i \in 1..(Len(text) - Len(pattern) + 1) :
        SubSeq(text, i, i + Len(pattern) - 1) = pattern

\* text.replace(old, new): every occurrence, from the left
RECURSIVE Replace(_, _, _)
Replace(text, old, new) ==
    IF text = <<>> THEN <<>>
    ELSE IF StartsWith(text, old)
    THEN new \o Replace(SubSeq(text, Len(old) + 1, Len(text)), old, new)
    ELSE <<Head(text)>> \o Replace(Tail(text), old, new)

\* os.path.splitext(name)[0]
SplitExt(name) ==
    IF name # <<>> /\ name[Len(name)] \in {".rs", ".go"}
    THEN SubSeq(name, 1, Len(name) - 1) ELSE name

\* the crates _analyze_rust_dependencies knows: the text it looks for and the
\* crate it declares then, in the order of its tests
KnownCrates ==
    << [pattern |-> <<"rand", "::">>,           crate |-> "rand"],
       [pattern |-> <<"serde", "::">>,          crate |-> "serde"],
       [pattern |-> <<"serde", "_json", "::">>, crate |-> "serde_json"],
       [pattern |-> <<"regex", "::">>,          crate |-> "regex"],
       [pattern |-> <<"reqwest", "::">>,        crate |-> "reqwest"],
       [pattern |-> <<"clap", "::">>,           crate |-> "clap"],
       [pattern |-> <<"flate2", "::">>,         crate |-> "flate2"],
       [pattern |-> <<"tokio", "::">>,          crate |-> "tokio"],
       [pattern |-> <<"tempfile", "::">>,       crate |-> "tempfile"] >>

\* _analyze_rust_dependencies: the crates whose text occurs in the content;
\* none when the file cannot be read
AnalyzeRustDependencies(content, readable) ==
    IF ~readable THEN <<>>
    ELSE LET found == SelectSeq(KnownCrates, LAMBDA e : Contains(content, e.pattern))
         IN  [i \in DOMAIN found |-> found[i].crate]

\* _create_cargo_project: the [dependencies] section of Cargo.toml
CargoToml(dependencies) == dependencies

\* _setup_go_module: the name of the copy of the source in the module
GoFileName(base_name) ==
    IF EndsWith(base_name, <<"_test", ".go">>)
    THEN Replace(base_name, <<"_test", ".go">>, <<"_benchmark", ".go">>)
    ELSE base_name

\* _compile_with_modules: the output path, from the name of the file found in
\* the module
GoOutputFile(module_file) ==
    LET base_name == SplitExt(module_file)
    IN  <<"binaries/">>
        \o (IF EndsWith(base_name, <<"_benchmark">>)
            THEN Replace(base_name, <<"_benchmark">>, <<"_test">>)
            ELSE base_name)
        \o <<"_go">>

\* RustRunner.compile_test and _compile_with_cargo: the output path
RustOutputFile(source_name) ==
    <<"binaries/">> \o SplitExt(source_name) \o <<"_rust">>

NoScaffold ==
    [state |-> "none", language |-> "rust", name |-> <<>>, statements |-> <<>>,
     readable |-> TRUE, dependencies |-> <<>>, module_file |-> <<>>,
     output_file |-> <<>>]

\* ------------------------------------------------------------------------
\* MetricsCollector (metrics.py) and _monitor_process_metrics (runners.py)
\* ------------------------------------------------------------------------
\* the threads start_monitoring can start, named by the number of the call
Threads == 1..MaxSessions

\* self.max_samples
max_samples == 1000

\* history[-self.max_samples:]
LastSamples(history) ==
    IF Len(history) > max_samples
    THEN SubSeq(history, Len(history) - max_samples + 1, Len(history))
    ELSE history

\* memory_info().rss as read at a sampling point
RssValues == {1, 2}

\* _compile_execution_metrics: the summary of the two histories and copies of
\* them; loop is the thread self.monitoring_thread names at that moment. (The
\* times and the cpu figures of the summary are left out.)
CompileExecutionMetrics(system_history, process_history, loop) ==
    [status |-> "compiled",
     loop |-> loop,
     peak_memory_usage |->
        IF process_history = <<>> THEN 0
        ELSE MaxSeq([i \in DOMAIN process_history |-> process_history[i].memory_rss]),
     system_metrics |-> system_history,
     process_metrics |-> process_history]

NoMetrics ==
    [status |-> "none", loop |-> 0, peak_memory_usage |-> 0,
     system_metrics |-> <<>>, process_metrics |-> <<>>]

\* the result of _monitor_process_metrics after an exception outside the loop
ZeroSamples == [peak_memory |-> 0, cpu_samples |-> 0]

NoSampler ==
    [state |-> "none", duration |-> 0, elapsed |-> 0, initial_memory |-> 0,
     peak_memory |-> 0, cpu_samples |-> 0, left_by |-> "none",
     result |-> ZeroSamples]

\* MetricsCollector.__init__, no call of _monitor_process_metrics yet
MonIdle ==
    /\ monitoring_active = FALSE
    /\ monitoring_thread = 0
    /\ thread_pc = [t \in Threads |-> "unborn"]
    /\ target_process = 0
    /\ system_metrics_history = <<>>
    /\ process_metrics_history = <<>>
    /\ current_metrics = NoMetrics
    /\ main = [pc |-> "idle", process_id |-> 0]
    /\ nsessions = 0
    /\ nticks = 0
    /\ process_running = TRUE
    /\ sampler = NoSampler

\* the compiled languages and where the build leaves its scratch directory
BuildLanguages == {"rust", "go", "typescript"}

NoBuild ==
    [state |-> "none", language |-> "rust", id |-> 0, temp_dir |-> 0,
     ran |-> FALSE, returncode |-> 0, result |-> "None",
     original_cwd |-> StartDir, cwd_inside |-> StartDir]

BuildIdle ==
    /\ scratch = {}
    /\ temp_dirs = {}
    /\ output = [l \in BuildLanguages |-> 0]
    /\ build = NoBuild
    /\ nbuilds = 0
    /\ cwd = StartDir
    /\ scaffold = NoScaffold

OrchIdle ==
    /\ target_languages = <<>>
    /\ target_tests = <<>>
    /\ iterations = 1
    /\ raw_results = EmptyDict
    /\ performance_summary = NoSummary
    /\ pc = "idle"
    /\ compiled_files = EmptyDict
    /\ ti = 1 /\ li = 1 /\ it = 0
    /\ suite_outcome = "none"
    /\ failed_languages = {}
    /\ raw_at_start = EmptyDict

CompIdle ==
    /\ c_raw = EmptyDict
    /\ c_summary = NoSummary
    /\ c_previous = NoSummary
    /\ performance_weights = InitialWeights
    /\ set_order = <<"go", "python", "rust", "typescript">>

InitRunner ==
    /\ MonIdle
    /\ children = {}
    /\ call = NoCall
    /\ ncalls = 0
    /\ executable_file = NoFile
    /\ OrchIdle
    /\ CompIdle
    /\ BuildIdle

RunnerExecuteTest ==
    /\ \E language \in Languages, test_name \in AllTests, iteration \in 0..(MaxIterations - 1),
          file_exists \in BOOLEAN, file_executable \in BOOLEAN :
         /\ (file_executable => file_exists)
         /\ ExecuteTestBegin(language, test_name, iteration, file_exists, file_executable,
                             TRUE)
    /\ UNCHANGED <<orch_vars, comp_vars, build_vars, mon_vars>>

RunnerCommunicate ==
    /\ ExecuteTestCommunicate
    /\ UNCHANGED <<orch_vars, comp_vars, build_vars, mon_vars>>

NextRunner ==
    \/ RunnerExecuteTest
    \/ RunnerCommunicate
    \/ ChildExits

SpecRunner == InitRunner /\ [][NextRunner]_vars

\* ------------------------------------------------------------------------
\* Specification of the builds: compile_test called with any source file, in
\* any environment
\* ------------------------------------------------------------------------
\* the record of a compile_test invocation that has ended
EndedBuild(language, id, temp_dir, ran, returncode, outcome, cwd_inside) ==
    [state |-> IF outcome = "raise" THEN "raised" ELSE "returned",
     language |-> language, id |-> id, temp_dir |-> temp_dir, ran |-> ran,
     returncode |-> returncode, result |-> IF outcome = "path" THEN "path" ELSE "None",
     original_cwd |-> cwd, cwd_inside |-> cwd_inside]

\* the return codes of a build command: 0, a failure of the build, and the -1
\* of _run_command after a timeout
BuildReturnCodes == {0, 1, -1}

\* RustRunner.compile_test(source_file)
RustCompileTest ==
    /\ nbuilds < MaxBuilds
    /\ nbuilds' = nbuilds + 1
    /\ LET id == nbuilds + 1 IN
       \E source_exists \in BOOLEAN, cargo_found \in BOOLEAN :
          IF ~source_exists \/ ~cargo_found
          THEN /\ build' = EndedBuild("rust", id, 0, FALSE, 0, "None", cwd)
               /\ UNCHANGED <<scratch, temp_dirs, output, cwd>>
          ELSE \E manifest_ok \in BOOLEAN, copy_ok \in BOOLEAN :
               IF CreateCargoProject(manifest_ok, copy_ok) = "raise"
               THEN /\ scratch' = scratch \cup {id}
                    /\ temp_dirs' = temp_dirs \cup {id}
                    /\ build' = EndedBuild("rust", id, id, FALSE, 0, "raise", cwd)
                    /\ UNCHANGED <<output, cwd>>
               ELSE \E chdir_ok \in BOOLEAN, returncode \in BuildReturnCodes,
                       built \in BOOLEAN, copy_out_ok \in BOOLEAN, rmtree_ok \in BOOLEAN :
                    LET cwd_inside == Chdir(id, cwd, chdir_ok)
                        outcome == IF chdir_ok
                                   THEN CompileWithCargo(returncode, built, copy_out_ok)
                                   ELSE "None"
                    IN
                    /\ (~chdir_ok => returncode = 0 /\ ~built /\ copy_out_ok)
                    /\ output' = IF outcome = "path"
                                  THEN [output EXCEPT !["rust"] = id]
                                  ELSE output
                    /\ cwd' = ChdirBack(cwd_inside, cwd)
                    /\ scratch' = CleanupTempDir(scratch \cup {id}, id, rmtree_ok)
                    /\ temp_dirs' = CleanupTempDir(temp_dirs \cup {id}, id, rmtree_ok)
                    /\ build' = EndedBuild("rust", id, id, chdir_ok, returncode, outcome,
                                           cwd_inside)
    /\ UNCHANGED scaffold
    /\ UNCHANGED <<os_vars, runner_vars, orch_vars, comp_vars, mon_vars>>

\* GoRunner.compile_test(source_file)
\*   wrote : go build wrote the file at the output path
GoCompileTest ==
    /\ nbuilds < MaxBuilds
    /\ nbuilds' = nbuilds + 1
    /\ LET id == nbuilds + 1 IN
       \E source_exists \in BOOLEAN, go_found \in BOOLEAN :
          IF ~source_exists \/ ~go_found
          THEN /\ build' = EndedBuild("go", id, 0, FALSE, 0, "None", cwd)
               /\ UNCHANGED <<scratch, temp_dirs, output, cwd>>
          ELSE \E copy_ok \in BOOLEAN, manifest_ok \in BOOLEAN :
               IF SetupGoModule(copy_ok, manifest_ok) = "raise"
               THEN /\ scratch' = scratch \cup {id}
                    /\ temp_dirs' = temp_dirs \cup {id}
                    /\ build' = EndedBuild("go", id, id, FALSE, 0, "raise", cwd)
                    /\ UNCHANGED <<output, cwd>>
               ELSE \E chdir_ok \in BOOLEAN, makedirs_ok \in BOOLEAN,
                       returncode \in BuildReturnCodes, wrote \in BOOLEAN,
                       rmtree_ok \in BOOLEAN :
                    LET cwd_inside == Chdir(id, cwd, chdir_ok)
                        ran == chdir_ok /\ makedirs_ok
                    IN
                    /\ (~ran => returncode = 0 /\ ~wrote)
                    /\ (~chdir_ok => makedirs_ok)
                    /\ output' = IF wrote THEN [output EXCEPT !["go"] = id] ELSE output
                    /\ cwd' = ChdirBack(cwd_inside, cwd)
                    /\ scratch' = CleanupTempDir(scratch \cup {id}, id, rmtree_ok)
                    /\ temp_dirs' = CleanupTempDir(temp_dirs \cup {id}, id, rmtree_ok)
                    /\ build' = EndedBuild("go", id, id, ran, returncode,
                                           IF ran
                                           THEN CompileWithModules(returncode,
                                                                   output'["go"] # 0)
                                           ELSE "None",
                                           cwd_inside)
    /\ UNCHANGED scaffold
    /\ UNCHANGED <<os_vars, runner_vars, orch_vars, comp_vars, mon_vars>>

\* TypeScriptRunner.compile_test(source_file)
\*   wrote : tsc wrote the file at the path compile_test expects
TypeScriptCompileTest ==
    /\ nbuilds < MaxBuilds
    /\ nbuilds' = nbuilds + 1
    /\ LET id == nbuilds + 1 IN
       \E source_exists \in BOOLEAN, tsc_available \in BOOLEAN :
          IF ~source_exists \/ ~tsc_available
          THEN /\ build' = EndedBuild("typescript", id, 0, FALSE, 0, "None", cwd)
               /\ UNCHANGED output
          ELSE \E returncode \in BuildReturnCodes, wrote \in BOOLEAN :
               /\ output' = IF wrote THEN [output EXCEPT !["typescript"] = id] ELSE output
               /\ build' = EndedBuild("typescript", id, 0, TRUE, returncode,
                                      CompileWithTsc(returncode, output'["typescript"] # 0),
                                      cwd)
    /\ UNCHANGED <<scratch, temp_dirs>>
    /\ UNCHANGED <<scaffold, cwd>>
    /\ UNCHANGED <<os_vars, runner_vars, orch_vars, comp_vars, mon_vars>>

\* BenchmarkOrchestrator.cleanup with cleanup_binaries set: binaries/ is removed
Cleanup ==
    /\ \E l \in BuildLanguages : output[l] # 0
    /\ output' = [l \in BuildLanguages |-> 0]
    /\ UNCHANGED <<scratch, temp_dirs, build, nbuilds, scaffold, cwd>>
    /\ UNCHANGED <<os_vars, runner_vars, orch_vars, comp_vars, mon_vars>>

NextBuild ==
    \/ RustCompileTest
    \/ GoCompileTest
    \/ TypeScriptCompileTest
    \/ Cleanup

SpecBuild == InitRunner /\ [][NextBuild]_vars

\* ------------------------------------------------------------------------
\* Specification of the scaffolding: the project and the output path that
\* compile_test derives from a source file
\* ------------------------------------------------------------------------
\* the statements of a Rust source: the crate each one imports and its text
RustStatements ==
    { [crate |-> "rand",        text |-> <<"use ", "rand", "::", "Rng", ";">>],
      [crate |-> "serde_json",  text |-> <<"use ", "serde", "_json", "::", "Value", ";">>],
      [crate |-> "fancy_regex", text |-> <<"use ", "fancy_", "regex", "::", "Regex", ";">>],
      [crate |-> "itertools",   text |-> <<"use ", "itertools", "::", "Itertools", ";">>] }

\* the sources: up to MaxImports statements
RustSources == UNION {[1..n -> RustStatements] : n \in 0..MaxImports}

\* the base names of the source files
SourceNames(language) ==
    LET ext == IF language = "rust" THEN ".rs" ELSE ".go" IN
    { <<"sort", ext>>, <<"sort", "_test", ext>>, <<"sort", "_benchmark", ext>>,
      <<"sort", "_benchmark", "_test", ext>> }

\* the content of a source file
RECURSIVE Content(_)
Content(statements) ==
    IF statements = <<>> THEN <<>>
    ELSE Head(statements).text \o Content(Tail(statements))

InitScaffold ==
    /\ MonIdle
    /\ children = {}
    /\ call = NoCall
    /\ ncalls = 0
    /\ executable_file = NoFile
    /\ OrchIdle
    /\ CompIdle
    /\ scratch = {}
    /\ temp_dirs = {}
    /\ output = [l \in BuildLanguages |-> 0]
    /\ build = NoBuild
    /\ nbuilds = 0
    /\ cwd = StartDir
    /\ \E language \in {"rust", "go"}, readable \in BOOLEAN :
       \E name \in SourceNames(language),
          statements \in (IF language = "rust" THEN RustSources ELSE {<<>>}) :
          scaffold = [NoScaffold EXCEPT !.state = "source", !.language = language,
                                        !.name = name, !.statements = statements,
                                        !.readable = readable]

\* compile_test up to the project: _analyze_rust_dependencies and
\* _create_cargo_project, or _setup_go_module
ScaffoldProject ==
    /\ scaffold.state = "source"
    /\ scaffold' =
          IF scaffold.language = "rust"
          THEN [scaffold EXCEPT
                  !.state = "project",
                  !.dependencies = CargoToml(AnalyzeRustDependencies(
                                                Content(scaffold.statements),
                                                scaffold.readable)),
                  !.module_file = <<"main", ".rs">>]
          ELSE [scaffold EXCEPT
                  !.state = "project",
                  !.module_file = GoFileName(scaffold.name)]
    /\ UNCHANGED <<os_vars, runner_vars, orch_vars, comp_vars,
                   scratch, temp_dirs, output, build, nbuilds, cwd, mon_vars>>

\* compile_test from the project on: the output path of the build
ScaffoldOutputFile ==
    /\ scaffold.state = "project"
    /\ scaffold' =
          [scaffold EXCEPT
             !.state = "built",
             !.output_file = IF scaffold.language = "rust"
                             THEN RustOutputFile(scaffold.name)
                             ELSE GoOutputFile(scaffold.module_file)]
    /\ UNCHANGED <<os_vars, runner_vars, orch_vars, comp_vars,
                   scratch, temp_dirs, output, build, nbuilds, cwd, mon_vars>>

NextScaffold ==
    \/ ScaffoldProject
    \/ ScaffoldOutputFile

SpecScaffold == InitScaffold /\ [][NextScaffold]_vars

\* ------------------------------------------------------------------------
\* Specification of the monitoring: one MetricsCollector called by one thread,
\* the sampling threads it starts and the monitored process
\* ------------------------------------------------------------------------
\* threading.Thread.is_alive
IsAlive(t) == t # 0 /\ thread_pc[t] \in {"while", "system", "process"}

\* start_monitoring after its call of stop_monitoring: the flag, the cleared
\* histories, the target process (psutil.Process raises NoSuchProcess for a
\* process that is gone) and the new thread
StartMonitoringRest(process_id) ==
    /\ monitoring_active' = TRUE
    /\ system_metrics_history' = <<>>
    /\ process_metrics_history' = <<>>
    /\ target_process' = IF process_id # 0
                         THEN (IF process_running THEN process_id ELSE 0)
                         ELSE target_process
    /\ nsessions' = nsessions + 1
    /\ monitoring_thread' = nsessions + 1
    /\ thread_pc' = [thread_pc EXCEPT ![nsessions + 1] = "while"]

\* start_monitoring(process_id), up to the join of its stop_monitoring when
\* monitoring is active, to its end otherwise
StartMonitoring ==
    /\ main.pc = "idle"
    /\ nsessions < MaxSessions
    /\ \E process_id \in {0, 1} :
         IF monitoring_active
         THEN IF IsAlive(monitoring_thread)
              THEN /\ monitoring_active' = FALSE
                   /\ main' = [pc |-> "start_join", process_id |-> process_id]
                   /\ UNCHANGED <<monitoring_thread, thread_pc, target_process,
                                  system_metrics_history, process_metrics_history,
                                  current_metrics, nsessions>>
              ELSE /\ current_metrics' =
                         CompileExecutionMetrics(system_metrics_history,
                                                 process_metrics_history,
                                                 monitoring_thread)
                   /\ StartMonitoringRest(process_id)
                   /\ UNCHANGED main
         ELSE /\ StartMonitoringRest(process_id)
              /\ UNCHANGED <<current_metrics, main>>
    /\ UNCHANGED <<nticks, process_running, sampler>>
    /\ UNCHANGED <<os_vars, runner_vars, orch_vars, comp_vars, build_vars>>

\* stop_monitoring(), up to its join when the thread is alive, to its end
\* otherwise
StopMonitoring ==
    /\ main.pc = "idle"
    /\ monitoring_active' = FALSE
    /\ IF IsAlive(monitoring_thread)
       THEN /\ main' = [main EXCEPT !.pc = "stop_join"]
            /\ UNCHANGED current_metrics
       ELSE /\ current_metrics' =
                  CompileExecutionMetrics(system_metrics_history,
                                          process_metrics_history, monitoring_thread)
            /\ UNCHANGED main
    /\ UNCHANGED <<monitoring_thread, thread_pc, target_process,
                   system_metrics_history, process_metrics_history, nsessions,
                   nticks, process_running, sampler>>
    /\ UNCHANGED <<os_vars, runner_vars, orch_vars, comp_vars, build_vars>>

\* self.monitoring_thread.join(timeout=1.0) returns, the thread having exited
\* or the second having passed, and stop_monitoring compiles the metrics; a
\* start_monitoring that called it goes on to its end.
JoinReturns ==
    /\ main.pc \in {"stop_join", "start_join"}
    /\ current_metrics' =
          CompileExecutionMetrics(system_metrics_history, process_metrics_history,
                                  monitoring_thread)
    /\ main' = [pc |-> "idle", process_id |-> 0]
    /\ IF main.pc = "start_join"
       THEN StartMonitoringRest(main.process_id)
       ELSE UNCHANGED <<monitoring_active, monitoring_thread, thread_pc,
                        target_process, system_metrics_history,
                        process_metrics_history, nsessions>>
    /\ UNCHANGED <<nticks, process_running, sampler>>
    /\ UNCHANGED <<os_vars, runner_vars, orch_vars, comp_vars, build_vars>>

\* _monitoring_loop: while self.monitoring_active
LoopWhile(t) ==
    /\ thread_pc[t] = "while"
    /\ IF monitoring_active
       THEN /\ nticks < MaxTicks
            /\ nticks' = nticks + 1
            /\ thread_pc' = [thread_pc EXCEPT ![t] = "system"]
       ELSE /\ thread_pc' = [thread_pc EXCEPT ![t] = "exited"]
            /\ UNCHANGED nticks
    /\ UNCHANGED <<monitoring_active, monitoring_thread, target_process,
                   system_metrics_history, process_metrics_history,
                   current_metrics, main, nsessions, process_running, sampler>>
    /\ UNCHANGED <<os_vars, runner_vars, orch_vars, comp_vars, build_vars>>

\* _monitoring_loop: the system metrics; _collect_system_metrics returns a
\* sample, or None after any exception
LoopSystem(t) ==
    /\ thread_pc[t] = "system"
    /\ \E collected \in BOOLEAN :
         system_metrics_history' =
            IF collected THEN Append(system_metrics_history, [thread |-> t])
            ELSE system_metrics_history
    /\ thread_pc' = [thread_pc EXCEPT ![t] = "process"]
    /\ UNCHANGED <<monitoring_active, monitoring_thread, target_process,
                   process_metrics_history, current_metrics, main, nsessions,
                   nticks, process_running, sampler>>
    /\ UNCHANGED <<os_vars, runner_vars, orch_vars, comp_vars, build_vars>>

\* _monitoring_loop: the process metrics, the limit of the histories and the
\* sleep. _collect_process_metrics returns a sample, or None after
\* NoSuchProcess and AccessDenied; any other exception leaves the try block
\* for `continue`.
LoopProcess(t) ==
    /\ thread_pc[t] = "process"
    /\ IF target_process # 0 /\ process_running
       THEN \E outcome \in {"sample", "None", "raise"}, rss \in RssValues :
              /\ (outcome # "sample" => rss = 1)
              /\ process_metrics_history' =
                    IF outcome = "sample"
                    THEN LastSamples(Append(process_metrics_history,
                                            [thread |-> t, memory_rss |-> rss]))
                    ELSE IF outcome = "None"
                    THEN LastSamples(process_metrics_history)
                    ELSE process_metrics_history
              /\ system_metrics_history' =
                    IF outcome = "raise" THEN system_metrics_history
                    ELSE LastSamples(system_metrics_history)
       ELSE /\ process_metrics_history' = LastSamples(process_metrics_history)
            /\ system_metrics_history' = LastSamples(system_metrics_history)
    /\ thread_pc' = [thread_pc EXCEPT ![t] = "while"]
    /\ UNCHANGED <<monitoring_active, monitoring_thread, target_process,
                   current_metrics, main, nsessions, nticks, process_running,
                   sampler>>
    /\ UNCHANGED <<os_vars, runner_vars, orch_vars, comp_vars, build_vars>>

\* the monitored process exits
MonitoredProcessExits ==
    /\ process_running
    /\ process_running' = FALSE
    /\ UNCHANGED <<monitoring_active, monitoring_thread, thread_pc, target_process,
                   system_metrics_history, process_metrics_history,
                   current_metrics, main, nsessions, nticks, sampler>>
    /\ UNCHANGED <<os_vars, runner_vars, orch_vars, comp_vars, build_vars>>

\* the return of _monitor_process_metrics from its loop
SamplerReturn(left_by) ==
    [sampler EXCEPT
       !.state = "returned",
       !.left_by = left_by,
       !.result = IF left_by = "except" THEN ZeroSamples
                  ELSE [peak_memory |-> sampler.peak_memory - sampler.initial_memory,
                        cpu_samples |-> sampler.cpu_samples]]

\* _monitor_process_metrics(process, duration) up to its loop: psutil.Process
\* and the first memory_info, which may raise
MonitorProcessMetricsBegin ==
    /\ sampler.state = "none"
    /\ \E duration \in Durations, initial_ok \in BOOLEAN :
         sampler' =
            IF initial_ok
            THEN [state |-> "sampling", duration |-> duration, elapsed |-> 0,
                  initial_memory |-> 1, peak_memory |-> 1, cpu_samples |-> 0,
                  left_by |-> "none", result |-> ZeroSamples]
            ELSE [NoSampler EXCEPT !.state = "returned", !.duration = duration,
                                   !.left_by = "initial"]
    /\ UNCHANGED <<monitoring_active, monitoring_thread, thread_pc, target_process,
                   system_metrics_history, process_metrics_history,
                   current_metrics, main, nsessions, nticks, process_running>>
    /\ UNCHANGED <<os_vars, runner_vars, orch_vars, comp_vars, build_vars>>

\* _monitor_process_metrics: one test of the loop condition and, when it
\* holds, one pass of the body. NoSuchProcess is raised for a process that has
\* gone since the test.
MonitorProcessMetricsTick ==
    /\ sampler.state = "sampling"
    /\ IF sampler.elapsed < sampler.duration /\ process_running
       THEN \E outcome \in {"sample", "NoSuchProcess", "AccessDenied", "Exception"},
               rss \in RssValues, cpu_percent \in {0, 1} :
              /\ (outcome # "sample" => rss = 1 /\ cpu_percent = 0)
              /\ sampler' =
                    IF outcome = "sample"
                    THEN [sampler EXCEPT
                            !.peak_memory = IF rss > @ THEN rss ELSE @,
                            !.cpu_samples = IF cpu_percent > 0 THEN @ + 1 ELSE @,
                            !.elapsed = @ + 1]
                    ELSE IF outcome = "Exception"
                    THEN SamplerReturn("except")
                    ELSE SamplerReturn("break")
              /\ process_running' = IF outcome = "NoSuchProcess" THEN FALSE
                                    ELSE process_running
       ELSE /\ sampler' = SamplerReturn("condition")
            /\ UNCHANGED process_running
    /\ UNCHANGED <<monitoring_active, monitoring_thread, thread_pc, target_process,
                   system_metrics_history, process_metrics_history,
                   current_metrics, main, nsessions, nticks>>
    /\ UNCHANGED <<os_vars, runner_vars, orch_vars, comp_vars, build_vars>>

NextMonitor ==
    \/ StartMonitoring
    \/ StopMonitoring
    \/ JoinReturns
    \/ \E t \in Threads : LoopWhile(t)
    \/ \E t \in Threads : LoopSystem(t)
    \/ \E t \in Threads : LoopProcess(t)
    \/ MonitoredProcessExits

SpecMonitor == InitRunner /\ [][NextMonitor]_vars

\* ------------------------------------------------------------------------
\* Specification of the sampling of a runner: one call of
\* _monitor_process_metrics and the process it samples
\* ------------------------------------------------------------------------
NextSampler ==
    \/ MonitorProcessMetricsBegin
    \/ MonitorProcessMetricsTick
    \/ MonitoredProcessExits

SpecSampler == InitRunner /\ [][NextSampler]_vars

\* ------------------------------------------------------------------------
\* BenchmarkOrchestrator (core.py)
\* ------------------------------------------------------------------------
Range(seq) == {seq[i] : i \in 1..Len(seq)}

\* the tests and languages a configuration file may enable
Configurations ==
    { [tests |-> <<>>,           languages |-> <<"python">>],
      [tests |-> <<"t1">>,       languages |-> <<"python", "rust">>],
      [tests |-> <<"t1">>,       languages |-> <<"go", "typescript">>],
      [tests |-> <<"t1", "t2">>, languages |-> <<"rust">>],
      [tests |-> <<"t1", "t2">>, languages |-> <<"typescript">>] }

\* discover_tests then compile_tests for one (test, language): the entry of
\* compiled_files, "none" when the pair gets no entry.
\*   found   : _find_test_file found the source file
\*   outcome : compile_test returned a path ("path"), returned None ("None"),
\*             or raised ("raise")
CompiledFileEntry(language, found, outcome) ==
    IF ~found THEN "none"
    ELSE CASE outcome = "path"  -> IF language = "python" THEN "source" ELSE "binary"
           [] outcome = "None"  -> "source"
           [] outcome = "raise" -> "none"

\* what compile_test of each runner can do with a source file that exists
CompileOutcomes(language) ==
    IF language = "python" THEN {"path"} ELSE {"path", "None", "raise"}

\* the failed TestResult _execute_all_tests builds when an iteration raised
FailedResult(language, test_name, iteration) ==
    TestResult(0, 0, "exception", FALSE, language, test_name, iteration)

\* An orchestrator that records the successful results only.
AppendIfSuccess(raw, test_name, language, result) ==
    IF result.success
    THEN DPut(raw, test_name,
              DPut(DGet(raw, test_name), language,
                   Append(DGet(DGet(raw, test_name), language), result)))
    ELSE raw

\* self.raw_results[test_name][language].append(result)
AppendResult(raw, test_name, language, result) ==
    DPut(raw, test_name,
         DPut(DGet(raw, test_name), language,
              Append(DGet(DGet(raw, test_name), language), result)))

\* the keyword arguments execute_benchmark_suite passes to compile_results
CallKeywords == {"raw_results", "benchmark_id", "execution_time", "language_versions"}

\* the parameters compile_results declares
CompileResultsParameters ==
    {"raw_results", "benchmark_id", "execution_time", "system_info", "configuration"}

CurrentTest == target_tests[ti]
CurrentLanguage == target_languages[li]

Init ==
    /\ MonIdle
    /\ children = {}
    /\ call = NoCall
    /\ ncalls = 0
    /\ executable_file = NoFile
    /\ \E cfg \in Configurations :
          /\ target_languages = cfg.languages
          /\ target_tests = cfg.tests
    /\ iterations \in 1..MaxIterations
    /\ raw_results = EmptyDict
    /\ performance_summary = NoSummary
    /\ pc = "idle"
    /\ compiled_files = EmptyDict
    /\ ti = 1 /\ li = 1 /\ it = 0
    /\ suite_outcome = "none"
    /\ failed_languages = {}
    /\ raw_at_start = EmptyDict
    /\ CompIdle
    /\ BuildIdle

\* set_iterations(n) with a valid n
SetIterations ==
    /\ pc = "idle"
    /\ \E n \in 1..MaxIterations : n # iterations /\ iterations' = n
    /\ UNCHANGED <<os_vars, runner_vars, comp_vars, build_vars, target_languages, target_tests, failed_languages,
                   raw_results, performance_summary, pc, compiled_files, ti, li, it,
                   suite_outcome, raw_at_start, mon_vars>>

\* execute_benchmark_suite, phase 1: validate_environments finds the
\* environment of some target languages unusable and raises
SuiteValidationFails ==
    /\ pc = "idle"
    /\ \E failed \in SUBSET Range(target_languages) :
          /\ failed # {}
          /\ failed_languages' = failed
    /\ suite_outcome' = "EnvironmentError"
    /\ raw_at_start' = raw_results
    /\ UNCHANGED <<os_vars, runner_vars, comp_vars, build_vars, target_languages,
                   target_tests, iterations, raw_results, performance_summary, pc,
                   compiled_files, ti, li, it, mon_vars>>

\* execute_benchmark_suite, phases 1-3: discover_tests returns an empty dict
SuiteNoTests ==
    /\ pc = "idle"
    /\ target_tests = <<>>
    /\ suite_outcome' = "ValueError"
    /\ failed_languages' = {}
    /\ UNCHANGED <<os_vars, runner_vars, comp_vars, build_vars, target_languages, target_tests,
                   iterations, raw_results, performance_summary, pc, compiled_files,
                   ti, li, it, raw_at_start, mon_vars>>

\* execute_benchmark_suite, phases 1-4: validation passes, the tests are
\* discovered and compiled; _execute_all_tests is entered.
SuiteCompile ==
    /\ pc = "idle"
    /\ target_tests # <<>>
    /\ suite_outcome' = "running"
    /\ \E found \in [Range(target_tests) \X Range(target_languages) -> BOOLEAN],
          outcome \in [Range(target_tests) \X Range(target_languages) -> {"path", "None", "raise"}] :
         /\ \A t \in Range(target_tests), l \in Range(target_languages) :
               /\ outcome[<<t, l>>] \in CompileOutcomes(l)
               /\ (~found[<<t, l>>] => outcome[<<t, l>>] = "path")
         /\ compiled_files' =
               [t \in Range(target_tests) |->
                  [l \in Range(target_languages) |->
                     CompiledFileEntry(l, found[<<t, l>>], outcome[<<t, l>>])]]
    /\ raw_at_start' = raw_results
    /\ failed_languages' = {}
    /\ ti' = 1 /\ li' = 1 /\ it' = 0
    /\ pc' = "test_loop"
    /\ UNCHANGED <<os_vars, runner_vars, comp_vars, build_vars, target_languages, target_tests,
                   iterations, raw_results, performance_summary, mon_vars>>

\* for test_name, language_files in compiled_files.items()
TestLoop ==
    /\ pc = "test_loop"
    /\ IF ti > Len(target_tests)
       THEN /\ pc' = "compile_results"
            /\ UNCHANGED <<raw_results, li>>
       ELSE /\ raw_results' = IF DHas(raw_results, CurrentTest)
                              THEN raw_results
                              ELSE DPut(raw_results, CurrentTest, EmptyDict)
            /\ li' = 1
            /\ pc' = "language_loop"
    /\ UNCHANGED <<os_vars, runner_vars, comp_vars, build_vars, target_languages, target_tests, failed_languages,
                   iterations, performance_summary, compiled_files, ti, it,
                   suite_outcome, raw_at_start, mon_vars>>

\* for language in self.target_languages
LanguageLoop ==
    /\ pc = "language_loop"
    /\ IF li > Len(target_languages)
       THEN /\ ti' = ti + 1
            /\ pc' = "test_loop"
            /\ UNCHANGED <<raw_results, li, it>>
       ELSE IF compiled_files[CurrentTest][CurrentLanguage] = "none"
       THEN /\ li' = li + 1
            /\ UNCHANGED <<raw_results, ti, it, pc>>
       ELSE /\ raw_results' =
                 IF DHas(DGet(raw_results, CurrentTest), CurrentLanguage)
                 THEN raw_results
                 ELSE DPut(raw_results, CurrentTest,
                           DPut(DGet(raw_results, CurrentTest), CurrentLanguage, <<>>))
            /\ it' = 0
            /\ pc' = "iteration_loop"
            /\ UNCHANGED <<ti, li>>
    /\ UNCHANGED <<os_vars, runner_vars, comp_vars, build_vars, target_languages, target_tests, failed_languages,
                   iterations, performance_summary, compiled_files,
                   suite_outcome, raw_at_start, mon_vars>>

\* for iteration in range(self.iterations): the end of the range
IterationLoopEnds ==
    /\ pc = "iteration_loop"
    /\ it >= iterations
    /\ li' = li + 1
    /\ pc' = "language_loop"
    /\ UNCHANGED <<os_vars, runner_vars, comp_vars, build_vars, target_languages, target_tests, failed_languages,
                   iterations, raw_results, performance_summary, compiled_files, ti, it,
                   suite_outcome, raw_at_start, mon_vars>>

\* _execute_single_test -> runner.execute_test(executable_file, ...): the file
\* handed over is the entry of compiled_files.
\*   a built binary exists and is executable; a source file exists, is
\*   executable or not by its mode, and is no program the system can execute
\*   unless an interpreter is put in front of it (python, node).
IterationExecute ==
    /\ pc = "iteration_loop"
    /\ it < iterations
    /\ LET handle == compiled_files[CurrentTest][CurrentLanguage] IN
       \E file_executable \in BOOLEAN :
          /\ (handle = "binary" => file_executable)
          /\ (CurrentLanguage \in {"python", "typescript"} => file_executable)
          /\ ExecuteTestBegin(CurrentLanguage, CurrentTest, it, TRUE, file_executable,
                              handle = "binary" \/ CurrentLanguage \in {"python", "typescript"})
    /\ pc' = "execute_test"
    /\ UNCHANGED <<comp_vars, build_vars, target_languages, target_tests, failed_languages, iterations, raw_results,
                   performance_summary, compiled_files, ti, li, it, suite_outcome,
                   raw_at_start, mon_vars>>

IterationCommunicate ==
    /\ pc = "execute_test"
    /\ ExecuteTestCommunicate
    /\ UNCHANGED <<orch_vars, comp_vars, build_vars, mon_vars>>

\* the try/except around _execute_single_test: the result returned, or the
\* failed result built from the exception, is appended
IterationAppend ==
    /\ pc = "execute_test"
    /\ call.state \in {"returned", "raised"}
    /\ raw_results' = AppendResult(raw_results, CurrentTest, CurrentLanguage,
                                   IF call.state = "returned"
                                   THEN call.result
                                   ELSE FailedResult(CurrentLanguage, CurrentTest, it))
    /\ it' = it + 1
    /\ pc' = "iteration_loop"
    /\ call' = NoCall
    /\ executable_file' = NoFile
    /\ UNCHANGED <<os_vars, ncalls, comp_vars, build_vars, target_languages, target_tests, failed_languages,
                   iterations, performance_summary, compiled_files, ti, li,
                   suite_outcome, raw_at_start, mon_vars>>

\* execute_benchmark_suite, phase 6: self.results_compiler.compile_results(...)
\* is called with keyword arguments; Python raises TypeError for a keyword the
\* function does not declare.
SuiteCompileResults ==
    /\ pc = "compile_results"
    /\ IF CallKeywords \subseteq CompileResultsParameters
       THEN /\ performance_summary' = CompileResults(raw_results)
            /\ suite_outcome' = "returned"
       ELSE /\ suite_outcome' = "TypeError"
            /\ UNCHANGED performance_summary
    /\ pc' = "idle"
    /\ compiled_files' = EmptyDict
    /\ raw_at_start' = EmptyDict
    /\ ti' = 1 /\ li' = 1 /\ it' = 0
    /\ UNCHANGED <<os_vars, runner_vars, comp_vars, build_vars, target_languages, target_tests, failed_languages,
                   iterations, raw_results, mon_vars>>

Next ==
    \/ SetIterations
    \/ SuiteValidationFails
    \/ SuiteNoTests
    \/ SuiteCompile
    \/ TestLoop
    \/ LanguageLoop
    \/ IterationLoopEnds
    \/ IterationExecute
    \/ IterationCommunicate
    \/ IterationAppend
    \/ SuiteCompileResults
    \/ ChildExits

Spec == Init /\ [][Next]_vars

\* ------------------------------------------------------------------------
\* Specification of the ResultsCompiler: compile_results called on any
\* raw_results of at most MaxSamples results
\* ------------------------------------------------------------------------
CompilerLanguages == {"python", "rust"}

\* the results a runner can have produced: [execution_time, memory_usage,
\* error, success]
SampleChoices ==
    { [execution_time |-> 1, memory_usage |-> 4, error |-> "stderr", success |-> TRUE],
      [execution_time |-> 2, memory_usage |-> 0, error |-> "stderr", success |-> TRUE],
      [execution_time |-> 2, memory_usage |-> 0, error |-> "timeout", success |-> FALSE] }

\* raw[test_name][language], [] when the key is missing
ResultsOf(raw, test_name, language) ==
    IF DHas(raw, test_name) /\ DHas(DGet(raw, test_name), language)
    THEN DGet(DGet(raw, test_name), language)
    ELSE <<>>

\* raw with the list of (test_name, language) created when missing
WithList(raw, test_name, language) ==
    LET with_test == IF DHas(raw, test_name) THEN raw ELSE DPut(raw, test_name, EmptyDict)
    IN  IF DHas(DGet(with_test, test_name), language) THEN with_test
        ELSE DPut(with_test, test_name, DPut(DGet(with_test, test_name), language, <<>>))

\* the tests become keys of the input in the order t1, t2 (the analysis of a
\* test does not depend on its name)
InTestOrder(raw, test_name) == test_name = "t2" => DHas(raw, "t1")

\* the first language of the first test is python (the analysis does not
\* depend on the names of the languages, and set_order takes both orders)
InLanguageOrder(raw, test_name, language) ==
    (test_name = "t1" /\ language = "rust") =>
        (DHas(raw, "t1") /\ DHas(DGet(raw, "t1"), "python"))

\* the orders in which a process can iterate over the set of the languages
SetOrders == {<<"python", "rust">>, <<"rust", "python">>}

InitCompiler ==
    /\ MonIdle
    /\ children = {}
    /\ call = NoCall
    /\ ncalls = 0
    /\ executable_file = NoFile
    /\ OrchIdle
    /\ c_raw = EmptyDict
    /\ c_summary = NoSummary
    /\ c_previous = NoSummary
    /\ performance_weights = InitialWeights
    /\ set_order \in SetOrders
    /\ BuildIdle

\* one more TestResult in the input
CompilerAddResult ==
    /\ CountExecutions(c_raw) < MaxSamples
    /\ \E test_name \in AllTests, language \in CompilerLanguages, smp \in SampleChoices :
         /\ InTestOrder(c_raw, test_name)
         /\ InLanguageOrder(c_raw, test_name, language)
         /\ c_raw' = AppendResult(WithList(c_raw, test_name, language), test_name, language,
                        TestResult(smp.execution_time, smp.memory_usage, smp.error,
                                   smp.success, language, test_name,
                                   Len(ResultsOf(c_raw, test_name, language))))
    /\ c_summary' = NoSummary
    /\ c_previous' = NoSummary
    /\ UNCHANGED <<os_vars, runner_vars, orch_vars, build_vars, set_order, performance_weights, mon_vars>>

\* one more language with an empty list of results in the input
CompilerAddLanguage ==
    /\ \E test_name \in AllTests, language \in CompilerLanguages :
         /\ InTestOrder(c_raw, test_name)
         /\ InLanguageOrder(c_raw, test_name, language)
         /\ ~(DHas(c_raw, test_name) /\ DHas(DGet(c_raw, test_name), language))
         /\ c_raw' = WithList(c_raw, test_name, language)
    /\ c_summary' = NoSummary
    /\ c_previous' = NoSummary
    /\ UNCHANGED <<os_vars, runner_vars, orch_vars, build_vars, set_order, performance_weights, mon_vars>>

\* compile_results(c_raw, ...)
CompilerCompile ==
    /\ c_summary.status = "none"
    /\ c_summary' = CompileResults(c_raw)
    /\ performance_weights' = WeightsAfterCompile(performance_weights)
    /\ UNCHANGED <<os_vars, runner_vars, orch_vars, build_vars, c_raw, c_previous, set_order, mon_vars>>

\* compile_results(c_raw, ...) once more, with the same compiler and input
CompilerCompileAgain ==
    /\ c_summary.status = "returned"
    /\ c_previous.status = "none"
    /\ c_previous' = c_summary
    /\ c_summary' = CompileResults(c_raw)
    /\ performance_weights' = WeightsAfterCompile(performance_weights)
    /\ UNCHANGED <<os_vars, runner_vars, orch_vars, build_vars, c_raw, set_order, mon_vars>>

NextCompiler ==
    \/ CompilerAddResult
    \/ CompilerAddLanguage
    \/ CompilerCompile
    \/ CompilerCompileAgain

SpecCompiler == InitCompiler /\ [][NextCompiler]_vars

\* ------------------------------------------------------------------------
\* Specification of the analysis of one test: compile_results called on any
\* results of two languages, up to MaxResults each
\* ------------------------------------------------------------------------
\* the lists of results a language can have
ResultLists == UNION {[1..n -> SampleChoices] : n \in 0..MaxResults}

\* the TestResults of a list of samples
ResultsFrom(language, samples) ==
    [i \in DOMAIN samples |->
       TestResult(samples[i].execution_time, samples[i].memory_usage, samples[i].error,
                  samples[i].success, language, "t1", i - 1)]

InitAnalysis ==
    /\ MonIdle
    /\ children = {}
    /\ call = NoCall
    /\ ncalls = 0
    /\ executable_file = NoFile
    /\ OrchIdle
    /\ BuildIdle
    /\ \E xs \in ResultLists, ys \in ResultLists :
          c_raw = <<[k |-> "t1",
                     v |-> <<[k |-> "python", v |-> ResultsFrom("python", xs)],
                             [k |-> "rust",   v |-> ResultsFrom("rust", ys)]>>]>>
    /\ c_summary = NoSummary
    /\ c_previous = NoSummary
    /\ performance_weights = InitialWeights
    /\ set_order = <<"python", "rust">>

NextAnalysis == CompilerCompile

SpecAnalysis == InitAnalysis /\ [][NextAnalysis]_vars

\* ------------------------------------------------------------------------
\* Properties of execute_test (SpecRunner)
\* ------------------------------------------------------------------------
CallEnded == call.state \in {"returned", "raised"}

\* C2: execute_test never raises.  Every call that has ended has returned one
\* TestResult, for the test, language and iteration it was called with, and
\* its success flag is true exactly when the process was spawned, exited
\* within the deadline and returned exit code 0.  (The code reports a process
\* that exited with code 0 as failed when what it wrote cannot be decoded.)
C2_ExecuteTestNeverRaises ==
    CallEnded =>
        /\ call.state = "returned"
        /\ call.outcome \in {"not_found", "not_executable", "spawn_failure", "exit", "timeout"}
        /\ call.result.success = (call.outcome = "exit" /\ call.returncode = 0)
        /\ call.result.language = call.language
        /\ call.result.test_name = call.test_name
        /\ call.result.iteration = call.iteration

\* C3: when the process is still running at the configured timeout, the call
\* returns one failed TestResult whose execution_time is the configured
\* timeout and whose error is the timeout error, and the call has taken no
\* longer than the timeout.
C3_TimeoutSample ==
    call.outcome = "timeout" =>
        /\ call.state = "returned"
        /\ ~call.result.success
        /\ call.result.execution_time = LanguageTimeout(call.language)
        /\ call.result.error = "timeout"
        /\ call.result.iteration = call.iteration
        /\ call.elapsed <= LanguageTimeout(call.language)

\* a go binary that runs past its timeout of one tick
C3_Witness ==
    /\ call.state = "returned"
    /\ call.outcome = "timeout"
    /\ call.language = "go"
    /\ call.result.execution_time = 1

\* C4: once execute_test has returned the timeout result, the child process it
\* spawned is no longer running.
C4_TimedOutChildTerminated ==
    (call.state = "returned" /\ call.outcome = "timeout") => call.pid \notin children

\* ------------------------------------------------------------------------
\* Properties of the orchestrator (Spec)
\* ------------------------------------------------------------------------
\* the (test, language) pairs of the matrix of the run
Matrix == Range(target_tests) \X Range(target_languages)

\* C1 as stated: when _execute_all_tests has finished, every (test, language)
\* pair of the matrix has exactly `iterations` results in raw_results.
C1_FullMatrix ==
    pc = "compile_results" =>
        \A p \in Matrix : Len(ResultsOf(raw_results, p[1], p[2])) = iterations

\* C1, amended: when _execute_all_tests has finished, every pair for which
\* compile_tests left an executable has had exactly `iterations` results
\* appended to what raw_results held when the run started, for the iterations
\* 0..iterations-1 in this order, and every other pair has had none.
C1_IterationsAppended ==
    pc = "compile_results" =>
        \A p \in Matrix :
            LET before == ResultsOf(raw_at_start, p[1], p[2])
                now    == ResultsOf(raw_results, p[1], p[2])
            IN  IF compiled_files[p[1]][p[2]] # "none"
                THEN /\ Len(now) = Len(before) + iterations
                     /\ SubSeq(now, 1, Len(before)) = before
                     /\ \A k \in 1..iterations :
                           /\ now[Len(before) + k].iteration = k - 1
                           /\ now[Len(before) + k].test_name = p[1]
                           /\ now[Len(before) + k].language = p[2]
                ELSE now = before

\* a run of two executions whose first iteration failed and whose second was
\* executed all the same
C1_Witness ==
    /\ pc = "compile_results"
    /\ ncalls = MaxExec
    /\ \E p \in Matrix :
          /\ compiled_files[p[1]][p[2]] # "none"
          /\ ResultsOf(raw_at_start, p[1], p[2]) = <<>>
          /\ ~ResultsOf(raw_results, p[1], p[2])[1].success
    /\ \A p \in Matrix :
          compiled_files[p[1]][p[2]] # "none" =>
              Len(ResultsOf(raw_results, p[1], p[2]))
                 = Len(ResultsOf(raw_at_start, p[1], p[2])) + iterations

\* C5: at every moment at most one benchmarked child process is alive.
C5_OneChildAtATime == Cardinality(children) <= 1

\* C6: in every list of raw_results the result at position k carries the
\* iteration index k, for the positions k = 0..iterations-1 the list has.
C6_IterationOrder ==
    \A i \in DOMAIN raw_results :
        \A j \in DOMAIN raw_results[i].v :
            \A k \in 1..iterations :
                k <= Len(raw_results[i].v[j].v) =>
                    raw_results[i].v[j].v[k].iteration = k - 1

\* C7: when execute_benchmark_suite has passed environment validation and
\* test discovery and has ended, performance_summary is set.
C7_SummaryAvailable ==
    (pc = "idle" /\ suite_outcome \notin {"none", "EnvironmentError", "ValueError"})
        => performance_summary.status = "returned"

\* ------------------------------------------------------------------------
\* Properties of the ResultsCompiler (SpecCompiler)
\* ------------------------------------------------------------------------
\* the number of results of a list that are successful
NumSuccessful(results) == Cardinality({i \in DOMAIN results : results[i].success})

\* the number of results of a list that are failures
NumFailed(results) == Cardinality({i \in DOMAIN results : ~results[i].success})

\* C8: for every LanguagePerformance of the summary, total_iterations is the
\* number of results given for the (test, language) pair, failures included,
\* and successful_iterations the number of those with success = true; so
\* successful <= total and successful + failed = total.
C8_IterationCounts ==
    c_summary.status = "returned" =>
        \A i \in DOMAIN c_summary.results :
            LET analysis == c_summary.results[i].v IN
            \A j \in DOMAIN analysis.language_performances :
                LET perf  == analysis.language_performances[j].v
                    given == ResultsOf(c_raw, c_summary.results[i].k,
                                       analysis.language_performances[j].k)
                IN  /\ perf.total_iterations = Len(given)
                    /\ perf.successful_iterations = NumSuccessful(given)
                    /\ perf.successful_iterations <= perf.total_iterations
                    /\ perf.successful_iterations + NumFailed(given) = perf.total_iterations

\* a pair with a failure and a success among its results
C8_Witness ==
    /\ c_summary.status = "returned"
    /\ \E i \in DOMAIN c_summary.results :
          \E j \in DOMAIN c_summary.results[i].v.language_performances :
             LET perf == c_summary.results[i].v.language_performances[j].v
             IN  /\ perf.successful_iterations > 0
                 /\ perf.successful_iterations < perf.total_iterations

\* C9: for every pair with zero successful iterations, performance_score and
\* reliability_score are both 0.
C9_ZeroScores ==
    c_summary.status = "returned" =>
        \A i \in DOMAIN c_summary.results :
            \A j \in DOMAIN c_summary.results[i].v.language_performances :
                LET perf == c_summary.results[i].v.language_performances[j].v
                IN  perf.successful_iterations = 0 =>
                        /\ perf.performance_score = Zero
                        /\ perf.reliability_score = Zero

\* the choice `chosen` is absent when no language of the test has a success,
\* and is otherwise a language with a success whose mean, means[j], is the lowest
\* among the languages with a success
LowestAmongSuccessful(language_performances, chosen, means) ==
    LET ok == {j \in DOMAIN language_performances :
                  language_performances[j].v.successful_iterations > 0}
    IN  IF ok = {} THEN chosen = ""
        ELSE \E j \in ok :
                /\ language_performances[j].k = chosen
                /\ \A m \in ok : RLeq(means[j], means[m])

\* C10: for every test, fastest_language and most_memory_efficient are
\* languages with at least one successful iteration, with the lowest mean
\* time and the lowest mean memory among those, and both are empty when no
\* language has a success.
C10_FastestAmongSuccessful ==
    c_summary.status = "returned" =>
        \A i \in DOMAIN c_summary.results :
            LET analysis == c_summary.results[i].v IN
            /\ LowestAmongSuccessful(analysis.language_performances,
                                     analysis.fastest_language,
                                     AvgTimes(analysis.language_performances))
            /\ LowestAmongSuccessful(analysis.language_performances,
                                     analysis.most_memory_efficient,
                                     AvgMemories(analysis.language_performances))

\* a test whose first language failed every iteration and whose second one
\* is reported as the fastest
C10_Witness ==
    /\ c_summary.status = "returned"
    /\ \E i \in DOMAIN c_summary.results :
          LET analysis == c_summary.results[i].v IN
          /\ Len(analysis.language_performances) = 2
          /\ analysis.language_performances[1].v.successful_iterations = 0
          /\ analysis.fastest_language = analysis.language_performances[2].k
          /\ analysis.most_memory_efficient = analysis.language_performances[2].k

\* the example of the specification, in ticks of 5 ms: variant A ("python")
\* has three successful results of 10 ms, variant B ("rust") two successful
\* results of 5 ms and one failure
ExampleReliableAndFastest ==
    <<[k |-> "python",
       v |-> [i \in 1..3 |-> TestResult(2, 1, "stderr", TRUE, "python", "t1", i - 1)]],
      [k |-> "rust",
       v |-> <<TestResult(1, 1, "stderr", TRUE, "rust", "t1", 0),
               TestResult(1, 1, "stderr", TRUE, "rust", "t1", 1),
               TestResult(0, 0, "exception", FALSE, "rust", "t1", 2)>>]>>

\* _analyze_test_results on the example
ExampleAnalysis == AnalyzeTestResults("t1", ExampleReliableAndFastest)

\* C11: for every test, most_reliable is a language of the test whose success
\* rate (successful results over results given) is not below that of any
\* other language of the test, those without any success included; and in the
\* example of the specification most_reliable is A while fastest is B.
C11_MostReliable ==
    /\ c_raw = EmptyDict =>
          /\ ExampleAnalysis.most_reliable = "python"
          /\ ExampleAnalysis.fastest_language = "rust"
    /\ c_summary.status = "returned" =>
        \A i \in DOMAIN c_summary.results :
            LET analysis == c_summary.results[i].v
                test     == c_summary.results[i].k
                langs    == {analysis.language_performances[j].k :
                                j \in DOMAIN analysis.language_performances}
                Given(l) == ResultsOf(c_raw, test, l)
            IN  langs # {} =>
                   /\ analysis.most_reliable \in langs
                   /\ \A l \in langs :
                         NumSuccessful(Given(l)) * Len(Given(analysis.most_reliable))
                            <= NumSuccessful(Given(analysis.most_reliable)) * Len(Given(l))

\* a test whose fastest language is not its most reliable one
C11_Witness ==
    /\ c_summary.status = "returned"
    /\ \E i \in DOMAIN c_summary.results :
          LET analysis == c_summary.results[i].v IN
          /\ analysis.fastest_language # ""
          /\ analysis.most_reliable # analysis.fastest_language
          /\ analysis.most_reliable # ""

\* the languages with a successful result for a test of the input
SuccessfulIn(raw, test_name) ==
    {l \in CompilerLanguages : NumSuccessful(ResultsOf(raw, test_name, l)) > 0}

\* the languages with a successful result for some test of the input
SuccessfulSomewhere(raw) == UNION {SuccessfulIn(raw, raw[i].k) : i \in DOMAIN raw}

\* the ranking lists exactly the languages of `members`, each once
ListsExactly(ranking, members) ==
    /\ {ranking[i].k : i \in DOMAIN ranking} = members
    /\ Len(ranking) = Cardinality(members)

\* C12: the performance_ranking of a test lists exactly the languages with a
\* success on that test, and each of the four overall rankings lists exactly
\* the languages with a success on some test, each language once.
C12_RankingMembers ==
    c_summary.status = "returned" =>
        /\ \A i \in DOMAIN c_summary.results :
              ListsExactly(c_summary.results[i].v.performance_ranking,
                           SuccessfulIn(c_raw, c_summary.results[i].k))
        /\ ListsExactly(c_summary.overall_rankings.by_speed, SuccessfulSomewhere(c_raw))
        /\ ListsExactly(c_summary.overall_rankings.by_memory, SuccessfulSomewhere(c_raw))
        /\ ListsExactly(c_summary.overall_rankings.by_reliability, SuccessfulSomewhere(c_raw))
        /\ ListsExactly(c_summary.overall_rankings.by_overall, SuccessfulSomewhere(c_raw))

\* a language that never succeeded is left out of the rankings of its test and of
\* the overall ranking, next to a language that is ranked
C12_Witness ==
    /\ c_summary.status = "returned"
    /\ Len(c_summary.overall_rankings.by_overall) = 1
    /\ \E i \in DOMAIN c_summary.results :
          /\ Len(c_summary.results[i].v.language_performances) = 2
          /\ Len(c_summary.results[i].v.performance_ranking) = 1

\* the indices of the tests of the summary in which a language has a
\* successful result in the input
TestsWithSuccess(language) ==
    {i \in DOMAIN c_summary.results :
        NumSuccessful(ResultsOf(c_raw, c_summary.results[i].k, language)) > 0}

\* the record of a language in test i of the summary
PerformanceIn(i, language) ==
    DGet(c_summary.results[i].v.language_performances, language)

\* the entry of a ranking is the mean of per_test over the tests in which its
\* language has a success: the sum of per_test over these tests, divided by
\* their number.  per_test[l][i] is the score of language l in test i.
IsMeanOverSuccessfulTests(entry, per_test) ==
    LET tests == TestsWithSuccess(entry.k)
        terms == [i \in DOMAIN c_summary.results |->
                    IF i \in tests THEN per_test[entry.k][i] ELSE Zero]
    IN  /\ tests # {}
        /\ entry.score = RDiv(RSum(terms), Rat(Cardinality(tests), 1))

\* the scores of a ranking never increase along the list
NonIncreasing(ranking) ==
    \A i, j \in DOMAIN ranking : i < j => ~RLess(ranking[i].score, ranking[j].score)

\* the per-test scores of the summary, by language and test: speed 1/avg_time,
\* memory 100/max(avg_memory in MB, 1), reliability 100 * reliability_score,
\* composite performance_score; Zero where the language has no success
SpeedByTest ==
    [l \in CompilerLanguages |-> [i \in DOMAIN c_summary.results |->
        IF i \in TestsWithSuccess(l)
        THEN RDiv(Rat(1, 1), PerformanceIn(i, l).avg_time) ELSE Zero]]

MemoryByTest ==
    [l \in CompilerLanguages |-> [i \in DOMAIN c_summary.results |->
        IF i \in TestsWithSuccess(l)
        THEN LET mb == RDiv(PerformanceIn(i, l).avg_memory, Rat(UnitsPerMB, 1))
             IN  IF RLess(mb, Rat(1, 1)) THEN Rat(100, 1) ELSE RDiv(Rat(100, 1), mb)
        ELSE Zero]]

ReliabilityByTest ==
    [l \in CompilerLanguages |-> [i \in DOMAIN c_summary.results |->
        IF i \in TestsWithSuccess(l)
        THEN RMul(Rat(100, 1), PerformanceIn(i, l).reliability_score) ELSE Zero]]

CompositeByTest ==
    [l \in CompilerLanguages |-> [i \in DOMAIN c_summary.results |->
        IF i \in TestsWithSuccess(l)
        THEN PerformanceIn(i, l).performance_score ELSE Zero]]

\* C13: in each of the four overall rankings the score of a language is the
\* mean of its per-test scores over exactly the tests in which it has a
\* success, and the list is in non-increasing order of the score.
C13_OverallScores ==
    c_summary.status = "returned" =>
        LET r == c_summary.overall_rankings IN
        /\ \A i \in DOMAIN r.by_speed : IsMeanOverSuccessfulTests(r.by_speed[i], SpeedByTest)
        /\ \A i \in DOMAIN r.by_memory : IsMeanOverSuccessfulTests(r.by_memory[i], MemoryByTest)
        /\ \A i \in DOMAIN r.by_reliability :
              IsMeanOverSuccessfulTests(r.by_reliability[i], ReliabilityByTest)
        /\ \A i \in DOMAIN r.by_overall :
              IsMeanOverSuccessfulTests(r.by_overall[i], CompositeByTest)
        /\ NonIncreasing(r.by_speed)
        /\ NonIncreasing(r.by_memory)
        /\ NonIncreasing(r.by_reliability)
        /\ NonIncreasing(r.by_overall)

\* a language that has a success in one test and only failures in the other,
\* ranked below another language
C13_Witness ==
    /\ c_summary.status = "returned"
    /\ Len(c_summary.overall_rankings.by_overall) = 2
    /\ RLess(c_summary.overall_rankings.by_overall[2].score,
             c_summary.overall_rankings.by_overall[1].score)
    /\ \E l \in CompilerLanguages :
          /\ Cardinality(TestsWithSuccess(l)) = 1
          /\ \E i \in DOMAIN c_summary.results :
                /\ i \notin TestsWithSuccess(l)
                /\ DHas(c_summary.results[i].v.language_performances, l)

\* C14: compile_results never raises: whatever the input, a test without
\* languages or a language without results included, and the input without
\* tests included, the call returns a summary.
C14_NeverRaises ==
    c_summary.status # "none" =>
        /\ c_summary.status = "returned"
        /\ c_summary.total_tests = Len(c_raw)
        /\ c_summary.total_executions = CountExecutions(c_raw)

C16_ScratchRemoved ==
    (build.state \in {"returned", "raised"} /\ build.temp_dir # 0) =>
        build.temp_dir \notin scratch

\* C19: compile_test returns a path only if the build tool exited with 0 and
\* the file at the output path was written by this invocation.
C19_PathOnlyIfBuilt ==
    (build.state = "returned" /\ build.result = "path") =>
        /\ build.ran
        /\ build.returncode = 0
        /\ output[build.language] = build.id

\* the results appended to a pair's list since the suite call was entered
RecordedInThisRun(test_name, language) ==
    LET before == ResultsOf(raw_at_start, test_name, language)
        now    == ResultsOf(raw_results, test_name, language)
    IN  SubSeq(now, Len(before) + 1, Len(now))

\* C17: a pair of a compiled language whose build gave no binary (compile_test
\* returned None) has failed results only among those recorded in the run.
C17_FailedBuildFailsAll ==
    pc \in {"test_loop", "language_loop", "iteration_loop", "execute_test", "compile_results"} =>
        \A p \in Matrix :
            (p[2] \in BuildLanguages /\ compiled_files[p[1]][p[2]] = "source") =>
                \A k \in DOMAIN RecordedInThisRun(p[1], p[2]) :
                    ~RecordedInThisRun(p[1], p[2])[k].success

\* C18: when a suite call has ended, every pair whose language passed the
\* validation and whose build left an executable has had all its iterations
\* recorded, whatever happened to the other languages.
C18_OthersStillRun ==
    /\ suite_outcome = "EnvironmentError" =>
          \A p \in Matrix :
              p[2] \notin failed_languages =>
                  Len(RecordedInThisRun(p[1], p[2])) = iterations
    /\ pc = "compile_results" =>
          \A p \in Matrix :
              compiled_files[p[1]][p[2]] # "none" =>
                  Len(RecordedInThisRun(p[1], p[2])) = iterations

\* C20: every TestResult with success = FALSE that execute_test returns has a
\* non-empty error string.
C20_FailedHasError ==
    (call.state = "returned" /\ ~call.result.success) => call.result.error # ""

\* the immediate failed sample of an up-front check: no success, duration 0, an
\* error that tells which check failed, the call returned and no child spawned
ImmediateFailure(kinds) ==
    /\ call.state = "returned"
    /\ ~call.result.success
    /\ call.result.execution_time = 0
    /\ call.result.error \in kinds
    /\ call.pid \notin children

\* C21 as stated: for rust, go and typescript alike, a file that does not exist
\* or is not executable gives an immediate failed sample.
C21_AllCompiledChecked ==
    (call.state # "none" /\ call.language \in BuildLanguages
        /\ (~executable_file.exists \/ ~executable_file.executable)) =>
        ImmediateFailure({"not_found", "not_executable"})

\* C21, amended: for rust and go a file that does not exist or is not
\* executable gives an immediate failed sample; for typescript a file that
\* does not exist does, and the execute permission of the file is not looked at.
C21_UpFrontChecks ==
    /\ (call.state # "none" /\ call.language \in {"rust", "go"}) =>
          /\ ~executable_file.exists => ImmediateFailure({"not_found"})
          /\ (executable_file.exists /\ ~executable_file.executable) =>
                ImmediateFailure({"not_executable"})
    /\ (call.state # "none" /\ call.language = "typescript") =>
          /\ ~executable_file.exists => ImmediateFailure({"not_found"})
          /\ (executable_file.exists /\ call.state = "returned") =>
                call.outcome \notin {"not_found", "not_executable"}

\* a go binary that exists and is not executable was handed to execute_test
C21_Witness ==
    /\ call.state = "returned"
    /\ call.language = "go"
    /\ executable_file.exists
    /\ ~executable_file.executable
    /\ call.result.error = "not_executable"

\* the number of successful results of a language in the test analysed
SuccessesOf(language) ==
    Len(SuccessfulResults(ResultsOf(c_raw, "t1", language)))

\* C22: the significance matrix of a test has an entry for every ordered pair
\* of distinct languages of the test, the entry is 1 when either language has
\* fewer than 2 successful results, and every entry lies between 0 and 1.
C22_SignificanceMatrix ==
    c_summary.status = "returned" =>
        \A i \in DOMAIN c_summary.results :
            LET significance == c_summary.results[i].v.statistical_significance
                languages    == DKeys(c_raw[i].v)
            IN  /\ DKeys(significance) = languages
                /\ \A lang1 \in languages :
                      /\ DKeys(DGet(significance, lang1)) = languages \ {lang1}
                      /\ Len(DGet(significance, lang1)) = Cardinality(languages) - 1
                      /\ \A lang2 \in languages \ {lang1} :
                            LET p == DGet(DGet(significance, lang1), lang2) IN
                            /\ RLeq(Zero, p) /\ RLeq(p, One)
                            /\ (Len(SuccessfulResults(ResultsOf(c_raw, c_raw[i].k, lang1))) < 2
                                \/ Len(SuccessfulResults(ResultsOf(c_raw, c_raw[i].k, lang2))) < 2)
                                  => p = One

\* a test whose two languages have two successes or more each and differ
\* significantly
C22_Witness ==
    /\ c_summary.status = "returned"
    /\ SuccessesOf("python") >= 2
    /\ SuccessesOf("rust") >= 2
    /\ RLess(DGet(DGet(c_summary.results[1].v.statistical_significance, "python"),
                  "rust"), One)

\* C23: for every language of a test with a successful result, the minimum of
\* the times is at most their median and their mean, and these are at most the
\* maximum.
C23_TimesOrdered ==
    c_summary.status = "returned" =>
        \A i \in DOMAIN c_summary.results :
            LET perfs == c_summary.results[i].v.language_performances IN
            \A j \in DOMAIN perfs :
                LET perf == perfs[j].v IN
                perf.successful_iterations > 0 =>
                    /\ RLeq(Rat(perf.min_time, 1), perf.median_time)
                    /\ RLeq(perf.median_time, Rat(perf.max_time, 1))
                    /\ RLeq(Rat(perf.min_time, 1), perf.avg_time)
                    /\ RLeq(perf.avg_time, Rat(perf.max_time, 1))

\* a language whose successful times are not all equal, the slower one first
\* and a failure among its results
C23_Witness ==
    /\ c_summary.status = "returned"
    /\ LET results == ResultsOf(c_raw, "t1", "python")
           perf    == DGet(c_summary.results[1].v.language_performances, "python")
       IN  /\ Len(results) = MaxResults
           /\ results[1].success /\ results[1].execution_time = 2
           /\ ~results[2].success
           /\ perf.min_time = 1
           /\ perf.max_time = 2
           /\ perf.successful_iterations = 2

\* the sum of total_iterations over the LanguagePerformance records of the
\* analyses of a summary
RECURSIVE SumOfTotalIterations(_)
SumOfTotalIterations(test_analyses) ==
    IF test_analyses = <<>> THEN 0
    ELSE LET perfs == Head(test_analyses).v.language_performances IN
         SumSeq([j \in DOMAIN perfs |-> perfs[j].v.total_iterations])
         + SumOfTotalIterations(Tail(test_analyses))

\* C30: in every summary total_executions is the number of TestResults of the
\* input, the sum of the successful and failed executions of the summary
\* statistics, and the sum of total_iterations over all records of all tests.
C30_TotalExecutions ==
    c_summary.status = "returned" =>
        /\ c_summary.total_executions = Len(AllResults(c_raw))
        /\ c_summary.total_executions
              = c_summary.summary_statistics.total_successful_executions
                + c_summary.summary_statistics.total_failed_executions
        /\ c_summary.total_executions = SumOfTotalIterations(c_summary.results)

\* a summary of two tests with successes and a failure, and with a language
\* that has no result
C30_Witness ==
    /\ c_summary.status = "returned"
    /\ Len(c_raw) = 2
    /\ c_summary.total_executions = MaxSamples
    /\ c_summary.summary_statistics.total_failed_executions = 1
    /\ \E i \in DOMAIN c_raw : \E j \in DOMAIN c_raw[i].v : c_raw[i].v[j].v = <<>>

\* the crates a source imports, and the crates the analysis knows
ImportedCrates(statements) == {statements[i].crate : i \in DOMAIN statements}
RecognizedCrates == {KnownCrates[i].crate : i \in DOMAIN KnownCrates}

\* C24: the manifest made for a readable Rust source declares exactly the
\* recognized crates the source imports: each of them, and nothing for an
\* import of a crate the analysis does not know.
C24_ManifestDeclaresImports ==
    (scaffold.state # "none" /\ scaffold.state # "source"
        /\ scaffold.language = "rust" /\ scaffold.readable) =>
        Range(scaffold.dependencies)
           = ImportedCrates(scaffold.statements) \cap RecognizedCrates

\* C29: the output path is binaries/<B>_<language>, B being the base name of
\* the source file without its extension.
C29_BinaryPath ==
    scaffold.state = "built" =>
        scaffold.output_file
           = <<"binaries/">> \o SplitExt(scaffold.name)
             \o <<IF scaffold.language = "rust" THEN "_rust" ELSE "_go">>

\* C28: after compile_test of the Rust or the Go runner the working directory
\* of the process is the one it was called in, whether the build succeeded,
\* failed, timed out, or an exception was raised inside the scratch directory.
C28_WorkingDirectoryKept ==
    (build.state # "none" /\ build.language \in {"rust", "go"}) =>
        cwd = build.original_cwd

\* a Go build that entered its scratch directory and timed out there
C28_Witness ==
    /\ build.state = "returned"
    /\ build.language = "go"
    /\ build.ran
    /\ build.cwd_inside = build.temp_dir
    /\ build.cwd_inside # build.original_cwd
    /\ build.returncode = -1
    /\ cwd = build.original_cwd

\* C25: the metrics stop_monitoring has compiled are those of a sampling
\* thread that has exited, so that thread appends nothing afterwards.
C25_CompiledAfterExit ==
    (current_metrics.status = "compiled" /\ current_metrics.loop # 0) =>
        thread_pc[current_metrics.loop] = "exited"

\* the loop of the collector runs as long as monitoring is active, whatever
\* its sampling points did
LoopRunsWhileActive ==
    \A t \in Threads : (monitoring_active /\ monitoring_thread = t) => IsAlive(t)

\* _monitor_process_metrics leaves its loop only when the process has exited
\* or the duration has passed, and returns what it has sampled
SamplerLeavesAtEndOnly ==
    (sampler.state = "returned" /\ sampler.left_by # "initial") =>
        /\ (sampler.left_by = "condition" \/ ~process_running)
        /\ sampler.result = [peak_memory |-> sampler.peak_memory - sampler.initial_memory,
                             cpu_samples |-> sampler.cpu_samples]

\* C26: a failing sampling point ends no sampling loop and loses no sample:
\* neither the loop of the collector nor that of _monitor_process_metrics.
C26_FailedTickOnlySkips ==
    /\ LoopRunsWhileActive
    /\ SamplerLeavesAtEndOnly

\* C27: at most one sampling thread is alive, and compiled metrics hold only
\* samples of the loop of the session they are compiled for.
C27_OneLoopPerSession ==
    /\ Cardinality({t \in Threads : IsAlive(t)}) <= 1
    /\ current_metrics.status = "compiled" =>
          /\ \A i \in DOMAIN current_metrics.system_metrics :
                current_metrics.system_metrics[i].thread = current_metrics.loop
          /\ \A i \in DOMAIN current_metrics.process_metrics :
                current_metrics.process_metrics[i].thread = current_metrics.loop
====
